---- MODULE Spec2Model ----
(***************************************************************************)
(* Model of the alko-mcp data engine: the bootstrap guard ensureData(),    *)
(* the spreadsheet sync pipeline (parseAlkoExcel, validateProducts,        *)
(* upsertProducts, sync log) and the product search of FirestoreService.   *)
(*                                                                         *)
(* Text is a sequence of one-character strings, so that trimming,          *)
(* lower-casing, substring tests and collation are computed, not assumed.  *)
(* Every `await` of the source is a step boundary: two asynchronous        *)
(* operations interleave exactly at their awaits.                          *)
(***************************************************************************)
EXTENDS Integers, Sequences, FiniteSets, TLC

\* ------------------------------------------------------------------ bounds
\* number of ensureData() calls made by tool handlers
NCallers == 2
\* number of syncProducts() invocations (they may overlap)
MaxRuns == 2
\* largest page size and largest offset a search request uses
\* largest catalog of the ranking check
MaxCatalog == 3
\* getProduct() invocations
MaxGets == 2
\* getAvailability() invocations
MaxAvailCalls == 3
\* getStoreHours() invocations
MaxHoursCalls == 2
\* last reading of the clock in the store-hours check
MaxNow == 3
\* getNextDelay() calls between two resets in the backoff check
MaxDelays == 5
\* scraper operations the host runs at once, and starts in all
MaxInFlight == 2
MaxScrapes == 2
\* calls of the search tool
MaxSearches == 2
\* scraper operations of the session check, run one after another
MaxSessionOps == 5
\* throttle() calls of the limiter check
MaxThrottles == 3
\* page sizes and offsets of the search
MaxLimit == 2
MaxOffset == 3

\* ------------------------------------------------------- program constants
\* firestore.ts:225 `const BATCH_SIZE = 500`, scaled so that a three-row
\* sheet needs two batches
BATCH_SIZE == 2
\* rate-limiter.ts:245 `Math.min(10, data.length)`: rows scanned for the header
HEADER_SCAN_ROWS == 10
\* null of a nullable number (product.ts:159 `smokiness: number | null`)
Null == -1

\* ------------------------------------------------------------ text helpers
Min(a, b) == IF a < b THEN a ELSE b
Max(a, b) == IF a > b THEN a ELSE b

\* String.prototype.toLowerCase on one character
LowerChar(c) ==
  CASE c = "A" -> "a"
    [] c = "B" -> "b"
    [] c = "C" -> "c"
    [] OTHER -> c

ToLowerCase(s) == [i \in 1..Len(s) |-> LowerChar(s[i])]

\* String.prototype.includes
Includes(s, t) == \E i \in 0..(Len(s) - Len(t)) : SubSeq(s, i + 1, i + Len(t)) = t

IsSpace(c) == c = " "

RECURSIVE TrimLeft(_)
TrimLeft(s) == IF s # <<>> /\ IsSpace(Head(s)) THEN TrimLeft(Tail(s)) ELSE s

RECURSIVE TrimRight(_)
TrimRight(s) ==
  IF s # <<>> /\ IsSpace(s[Len(s)]) THEN TrimRight(SubSeq(s, 1, Len(s) - 1)) ELSE s

\* String.prototype.trim
Trim(s) == TrimRight(TrimLeft(s))

\* ------------------------------------------------------------ spreadsheet
\* A cell is <<>> (null / undefined / missing) or <<v>>.  A row is a sequence
\* of cells; only the columns the model reads are kept, in source order:
\* Numero(0) Nimi(1) Valmistaja(2) Hinta(4) Tyyppi(8) Valmistusmaa(12) Alkoholi-%(21)
COL_NUMERO == 1
COL_NIMI == 2
COL_VALMISTAJA == 3
COL_HINTA == 4
COL_TYYPPI == 5
COL_VALMISTUSMAA == 6
COL_ALKOHOLI == 7

CellAt(row, k) == IF k <= Len(row) THEN row[k] ELSE <<>>

\* parseString: null for null/undefined/'' else the trimmed text
parseString(cell) ==
  IF cell = <<>> \/ cell[1] = <<>> THEN <<>> ELSE <<Trim(cell[1])>>

\* parseNumber on a numeric cell: null (here <<>>) for null/undefined
parseNumber(cell) == IF cell = <<>> THEN <<>> ELSE <<cell[1]>>

\* `parseString(x) || ''`
StrOrEmpty(cell) == IF parseString(cell) = <<>> THEN <<>> ELSE parseString(cell)[1]

\* `parseNumber(x) || 0`
NumOrZero(cell) ==
  IF parseNumber(cell) = <<>> \/ parseNumber(cell)[1] = 0 THEN 0 ELSE parseNumber(cell)[1]

\* rowToAlkoExcelRow: null (here <<>>) when Numero is missing or blank
rowToAlkoExcelRow(row) ==
  LET numero == parseString(CellAt(row, COL_NUMERO)) IN
  IF numero = <<>> \/ numero[1] = <<>> THEN <<>>
  ELSE << [ Numero       |-> numero[1],
            Nimi         |-> StrOrEmpty(CellAt(row, COL_NIMI)),
            Valmistaja   |-> StrOrEmpty(CellAt(row, COL_VALMISTAJA)),
            Hinta        |-> NumOrZero(CellAt(row, COL_HINTA)),
            Tyyppi       |-> StrOrEmpty(CellAt(row, COL_TYYPPI)),
            Valmistusmaa |-> StrOrEmpty(CellAt(row, COL_VALMISTUSMAA)),
            Alkoholi     |-> NumOrZero(CellAt(row, COL_ALKOHOLI)) ] >>

\* excelRowToProduct: both timestamps are Timestamp.now(); the enriched
\* fields are not in the spreadsheet and are set to null (<<>>, Null)
excelRowToProduct(r, t) ==
  [ id |-> r.Numero, name |-> r.Nimi, producer |-> r.Valmistaja,
    price |-> r.Hinta, type |-> r.Tyyppi, country |-> r.Valmistusmaa,
    tasteProfile |-> <<>>, foodPairings |-> <<>>,
    smokiness |-> Null, smokinessLabel |-> <<>>,
    alcoholPercentage |-> r.Alkoholi,
    createdAt |-> t, updatedAt |-> t ]

Numero == <<"N", "u", "m", "e", "r", "o">>

\* variant: the first row is taken as the header when none is found
HeaderRowIndex_Default(data) ==
  LET hits == { i \in 1..Min(HEADER_SCAN_ROWS, Len(data)) :
                  CellAt(data[i], COL_NUMERO) = <<Numero>> } IN
  IF hits = {} THEN 1 ELSE CHOOSE i \in hits : \A j \in hits : i <= j

\* index of the header row among the first HEADER_SCAN_ROWS rows, 0 if none
\* (the source's -1)
HeaderRowIndex(data) ==
  LET hits == { i \in 1..Min(HEADER_SCAN_ROWS, Len(data)) :
                  CellAt(data[i], COL_NUMERO) = <<Numero>> } IN
  IF hits = {} THEN 0 ELSE CHOOSE i \in hits : \A j \in hits : i <= j

RECURSIVE ParseRows(_, _, _)
ParseRows(data, i, t) ==
  IF i > Len(data) THEN <<>>
  ELSE IF Len(data[i]) = 0 \/ rowToAlkoExcelRow(data[i]) = <<>>
       THEN ParseRows(data, i + 1, t)
       ELSE <<excelRowToProduct(rowToAlkoExcelRow(data[i])[1], t)>>
              \o ParseRows(data, i + 1, t)

NoHeaderMessage == "Could not find header row with \"Numero\" column"

\* parseAlkoExcel: [ok |-> FALSE, message] when it throws
parseAlkoExcel(data, t) ==
  IF HeaderRowIndex(data) = 0
  THEN [ok |-> FALSE, message |-> NoHeaderMessage, products |-> <<>>]
  ELSE [ok |-> TRUE, message |-> "",
        products |-> ParseRows(data, HeaderRowIndex(data) + 1, t)]

\* variant: the price check is missing
ProductErrors_NoPrice(p) ==
  (IF p.id = <<>> THEN << <<"Missing product ID">> >> ELSE <<>>)
  \o (IF p.name = <<>> THEN << <<"Missing product name">> >> ELSE <<>>)
  \o (IF p.alcoholPercentage < 0 \/ p.alcoholPercentage > 100
      THEN << <<"Invalid alcohol percentage", p.alcoholPercentage>> >> ELSE <<>>)

\* the error strings validateProducts collects for one product
ProductErrors(p) ==
  (IF p.id = <<>> THEN << <<"Missing product ID">> >> ELSE <<>>)
  \o (IF p.name = <<>> THEN << <<"Missing product name">> >> ELSE <<>>)
  \o (IF p.price < 0 THEN << <<"Invalid price", p.price>> >> ELSE <<>>)
  \o (IF p.alcoholPercentage < 0 \/ p.alcoholPercentage > 100
      THEN << <<"Invalid alcohol percentage", p.alcoholPercentage>> >> ELSE <<>>)

IsValidProduct(p) == ProductErrors(p) = <<>>

\* validateProducts(products).valid
ValidProducts(ps) == SelectSeq(ps, IsValidProduct)

\* validateProducts(products).invalid
InvalidProducts(ps) == SelectSeq(ps, LAMBDA p : ~IsValidProduct(p))

\* data-sync.ts:103-105 `Product ${product.id}: ${productErrors.join(', ')}`
ValidationErrorEntry(p) == <<"Product", p.id, ProductErrors(p)>>

ValidationErrors(ps) ==
  [i \in 1..Len(InvalidProducts(ps)) |-> ValidationErrorEntry(InvalidProducts(ps)[i])]

\* ------------------------------------------------------------------ inputs
Txt1 == <<"1">>
Txt2 == <<"2">>
Txt3 == <<"3">>
NameAb == <<"A", "b">>
NameB == <<"b", "a">>
NameC == <<"c">>

DataRow(id, name, price, alc) ==
  << <<id>>, <<name>>, <<NameC>>, <<price>>, <<NameB>>, <<NameC>>, <<alc>> >>

BannerRow == << <<NameAb>> >>
BlankRow == <<>>
NullRow == << <<>>, <<>>, <<>> >>
HeaderRow == << <<Numero>>, <<NameAb>> >>
Row1 == DataRow(Txt1, NameAb, 5, 40)
Row2 == DataRow(<<" ", "2", " ">>, NameB, 0, 0)
Row3 == DataRow(Txt3, NameC, 7, 100)
\* rows that fail validation
RowBadPrice == DataRow(Txt2, NameB, -1, 12)
RowNoName == << <<Txt3>>, <<>>, <<NameC>>, <<4>> >>
RowBadAlcohol == DataRow(Txt1, NameAb, 3, 101)

\* the spreadsheets the download may deliver
Sheets ==
  { <<BannerRow, BlankRow, HeaderRow, Row1, Row2, Row3>>,
    <<HeaderRow, RowNoName, Row1, RowBadPrice, NullRow, Row2, RowBadAlcohol>>,
    <<BannerRow, Row1, Row2>>,
    <<HeaderRow, BlankRow>> }

\* SeedProduct: a product without timestamps (part_004)
SeedItem(id, name, price) ==
  [ id |-> id, name |-> name, producer |-> NameC, price |-> price,
    type |-> NameB, country |-> NameC,
    tasteProfile |-> <<>>, foodPairings |-> <<>>,
    smokiness |-> Null, smokinessLabel |-> <<>>,
    alcoholPercentage |-> 12 ]

\* opening hours as the site prints them
Hours9to18 == <<"9", "-", "1", "8">>
Hours10to22 == <<"1", "0", "-", "2", "2">>
HoursClosed == <<"S", "U", "L", "J", "E", "T", "T", "U">>

\* SeedStore: a store without timestamp (part_004)
SeedStoreItem(id, name, today, tomorrow) ==
  [ id |-> id, name |-> name, openingHoursToday |-> today,
    openingHoursTomorrow |-> tomorrow ]

Outlet1 == SeedStoreItem("s1", NameAb, <<Hours9to18>>, <<Hours10to22>>)
Outlet2 == SeedStoreItem("s2", NameB, <<HoursClosed>>, <<>>)

\* the bundled seed files: absent, empty, and two non-empty bundles
Seeds ==
  { [present |-> FALSE, products |-> <<>>, stores |-> <<>>],
    [present |-> TRUE, products |-> <<>>, stores |-> <<>>],
    [present |-> TRUE,
     products |-> <<SeedItem(Txt1, NameAb, 5), SeedItem(Txt2, NameB, 6)>>,
     stores |-> <<Outlet1>>],
    [present |-> TRUE, products |-> <<>>, stores |-> <<Outlet1>>] }

Callers == 1..NCallers

\* catalog documents for the search
Doc(id, name, producer, price, type, country, smokiness) ==
  [ id |-> id, name |-> name, producer |-> producer, price |-> price,
    type |-> type, country |-> country,
    tasteProfile |-> <<>>, foodPairings |-> <<>>,
    smokiness |-> smokiness, smokinessLabel |-> <<>>,
    alcoholPercentage |-> 12, createdAt |-> 0, updatedAt |-> 0 ]

CatalogPool ==
  { Doc(<<"1">>, <<"a", " ", "b">>, <<"c">>, 5, <<"b", "a">>, <<"c">>, Null),
    Doc(<<"2">>, <<"B", " ", "a">>, <<"c">>, 7, <<"b", "a">>, <<"c">>, 2),
    Doc(<<"3">>, <<"c">>, <<"A", " ", "b">>, 5, <<"c">>, <<"c">>, 3),
    Doc(<<"4">>, <<"C">>, <<"c">>, 9, <<"b">>, <<"a">>, 1),
    Doc(<<"5">>, <<"A", " ", "b">>, <<>>, 5, <<"c">>, <<>>, Null) }

\* a catalog: the documents of a subset of the pool, keyed by id
CatalogOf(docs) ==
  [id \in { d.id : d \in docs } |-> CHOOSE d \in docs : d.id = id]

\* search requests: filters and options together; <<>> is undefined
Requests ==
  [ query : { <<>>, << <<>> >>, << <<"a", " ", "b">> >>, << <<"B">> >> },
    type : { <<>>, << <<"b", "a">> >> },
    minPrice : { <<>>, <<6>> },
    minSmokiness : { <<>>, <<2>> },
    maxSmokiness : { <<>>, <<2>> },
    sortBy : { "name", "price" },
    sortOrder : { "asc", "desc" },
    limit : 1..MaxLimit,
    offset : 0..MaxOffset ]

\* catalog documents for the ranking of a text search: one per scoring rule
\* of the words a and b, two of them with the same name
RankDoc(id, name, producer, country, type, price) ==
  Doc(id, name, producer, price, type, country, Null)

RankPool ==
  { RankDoc(<<"1">>, <<"b">>, <<"c">>, <<"c">>, <<"c">>, 5),
    RankDoc(<<"2">>, <<"a", " ", "b">>, <<"c">>, <<"c">>, <<"c">>, 7),
    RankDoc(<<"3">>, <<"b", " ", "a">>, <<"c">>, <<"c">>, <<"c">>, 5),
    RankDoc(<<"1", "1">>, <<"c">>, <<"a", " ", "b">>, <<"c">>, <<"c">>, 5),
    RankDoc(<<"1", "2">>, <<"C">>, <<"b", " ", "a">>, <<"c">>, <<"c">>, 5),
    RankDoc(<<"1", "3">>, <<"c", " ", "c">>, <<"c">>, <<"a", " ", "b">>, <<"c">>, 5),
    RankDoc(<<"2", "1">>, <<"c", " ", "1">>, <<"c">>, <<"b", " ", "a">>, <<"a", " ", "b">>, 5),
    RankDoc(<<"2", "2">>, <<"1">>, <<"c">>, <<"b", " ", "a">>, <<"c">>, 5),
    RankDoc(<<"2", "3">>, <<"2">>, <<"c">>, <<"a">>, <<"b">>, 5),
    RankDoc(<<"3", "1">>, <<"a", " ", "b">>, <<"c">>, <<"c">>, <<"c">>, 3) }

\* text requests that return the whole ranked list
RankRequests ==
  [ query : { << <<"a", " ", "b">> >>, << <<"B">> >> },
    type : { <<>> },
    minPrice : { <<>> },
    minSmokiness : { <<>> },
    maxSmokiness : { <<>> },
    sortBy : { "name", "price" },
    sortOrder : { "asc", "desc" },
    limit : { MaxCatalog },
    offset : { 0 } ]

NoRequest ==
  [ query |-> <<>>, type |-> <<>>, minPrice |-> <<>>, minSmokiness |-> <<>>,
    maxSmokiness |-> <<>>, sortBy |-> "name", sortOrder |-> "asc",
    limit |-> 0, offset |-> 0 ]

NoSearchResult ==
  [ products |-> <<>>, total |-> 0, limit |-> 0, offset |-> 0, hasMore |-> FALSE ]

\* ------------------------------------------------------------------- state
VARIABLES
  now,              \* the clock Timestamp.now() reads
  products,         \* collection 'products': id -> document
  stores,           \* collection 'stores': id -> document
  syncLogs,         \* collection 'syncLogs': one document per sync run
  sheet,            \* the spreadsheet the site publishes
  seed,             \* the bundled seed-data.json
  response,         \* what the site answers to the price-list request
  download,         \* how downloadPriceList() ended, <<>> before it has
  seedDataChecked,  \* data-sync.ts:17
  seedDataLoading,  \* data-sync.ts:18: 0 (null) or the attempt whose promise it holds
  loaders,          \* one record per started attempt (the async IIFE of ensureData)
  callerPc,         \* each ensureData() caller: idle / awaiting / returned / threw
  callerAwait,      \* the attempt a caller awaits, 0 if none
  runs,             \* one record per syncProducts() invocation
  storeChecks,      \* number of getProductCount() calls made by ensureData
  seedLoads,        \* number of times a seed load was started
  searchReq,        \* the filters and options of the last searchProducts call
  searchRes,        \* the ProductSearchResult it returned
  searchCache,      \* CacheService search entries: key -> products
  searchOut,        \* what the search tool returned, one record per call
  gets,             \* one record per getProduct() invocation
  productCache,     \* CacheService product entries: id -> product
  scrapes,          \* scrapeProductDetails() invocations so far, per product id
  availCache,       \* AlkoScraper.cache: product id -> AvailabilityResult
  availability,     \* collection 'availability': product id -> its records
  availCalls,       \* one record per getAvailability() invocation
  hoursCalls,       \* one record per getStoreHours() invocation
  rateLimiter,      \* RateLimiter: lastRequestTime and minIntervalMs
  backoff,          \* ExponentialBackoff: attempt, baseMs, maxMs, factor
  sessionEstablished, \* AlkoScraper.sessionEstablished
  concurrency,      \* scraper operations the host lets run at once
  budget,           \* scraper operations the host starts in all
  ops,              \* the scraper operations in flight, one per slot
  opsStarted,       \* scraper operations started so far
  throttleLog,      \* the last two completed throttle() calls: start and completion
  gotoLog,          \* the times of the last two page.goto() calls
  failures,         \* errors caught since the last success / the last reset
  delays,           \* what getNextDelay() returned since construction or reset()
  browser,          \* AlkoScraper.browser is set
  context,          \* AlkoScraper.context is set
  page,             \* AlkoScraper.page is set
  vivinoRatings,    \* collection 'vivinoRatings': cache key -> stored rating
  memoryCache,      \* VivinoScraper.memoryCache: cache key -> VivinoRatingResult
  vivinoScraper,    \* VivinoScraper: browser, rateLimiter and backoff
  ratingCalls,      \* one record per getWineRating() invocation
  toolCalls,        \* one record per invocation of a tool handler
  keyLog            \* the objects createSearchKey() was given and the keys it made

vars == << now, products, stores, syncLogs, sheet, seed, response, download,
           seedDataChecked,
           seedDataLoading, loaders, callerPc, callerAwait, runs,
           storeChecks, seedLoads, searchReq, searchRes, searchCache, searchOut,
           gets, productCache,
           scrapes, availCache, availability, availCalls, hoursCalls,
           rateLimiter, backoff, sessionEstablished, concurrency, budget, ops,
           opsStarted, throttleLog, gotoLog, failures, delays,
           browser, context, page, vivinoRatings, memoryCache, vivinoScraper,
           ratingCalls, toolCalls, keyLog >>

inputVars == << sheet, seed, response, download >>
searchVars == << searchReq, searchRes, searchCache, searchOut >>
enrichVars == << gets, productCache, scrapes >>
availVars == << availCache, availability, availCalls >>
limiterVars == << rateLimiter, throttleLog >>
backoffVars == << backoff, delays >>
scraperVars == << limiterVars, backoffVars, sessionEstablished, concurrency, budget,
                 ops, opsStarted, gotoLog, failures >>
browserVars == << browser, context, page >>
vivinoVars == << vivinoRatings, memoryCache, vivinoScraper, ratingCalls >>
serviceVars == << browserVars, vivinoVars, toolCalls, keyLog >>
toolVars == << enrichVars, availVars, hoursCalls, scraperVars >>

syncVars == << syncLogs, runs >>
ensureVars == << seedDataChecked, seedDataLoading, loaders, callerPc,
                 callerAwait, storeChecks, seedLoads >>

\* ----------------------------------------------------------- upsertProducts
\* The progress of one upsertProducts(ps) call: chunk start i (0-based),
\* k products of the chunk already read, the pending WriteBatch and the
\* two counters.
UpsertInit(ps) ==
  [ps |-> ps, i |-> 0, k |-> 0, batch |-> <<>>, added |-> 0, updated |-> 0]

ChunkLen(u) == Min(BATCH_SIZE, Len(u.ps) - u.i)
UpsertReading(u) == u.i < Len(u.ps) /\ u.k < ChunkLen(u)
UpsertReadyToCommit(u) == u.i < Len(u.ps) /\ u.k = ChunkLen(u)
UpsertFinished(u) == u.i >= Len(u.ps)

\* the document batch.set() receives for product p, given the snapshot db
\* that ref.get() returned
UpsertDoc(p, db, t) ==
  IF p.id \in DOMAIN db
  THEN [p EXCEPT !.createdAt = db[p.id].createdAt, !.updatedAt = t]
  ELSE [p EXCEPT !.createdAt = t, !.updatedAt = t]

\* variant: an existing document counts as updated only if a field differs
UpsertGet_CountChanged(u, db, t) ==
  LET p == u.ps[u.i + u.k + 1]
      exists == p.id \in DOMAIN db
      differs == exists /\ [UpsertDoc(p, db, t) EXCEPT !.updatedAt = 0]
                             # [db[p.id] EXCEPT !.updatedAt = 0]
  IN [u EXCEPT !.k = @ + 1,
               !.batch = Append(@, UpsertDoc(p, db, t)),
               !.added = IF exists THEN @ ELSE @ + 1,
               !.updated = IF differs THEN @ + 1 ELSE @]

\* one iteration of the inner loop: ref.get(), batch.set(), counter
UpsertGet(u, db, t) ==
  LET p == u.ps[u.i + u.k + 1]
      exists == p.id \in DOMAIN db
  IN [u EXCEPT !.k = @ + 1,
               !.batch = Append(@, UpsertDoc(p, db, t)),
               !.added = IF exists THEN @ ELSE @ + 1,
               !.updated = IF exists THEN @ + 1 ELSE @]

\* batch.commit(): the sets are applied in order, atomically
\* variant: the commit leaves only the last document written
ApplyBatch_Replace(db, batch) ==
  IF batch = <<>> THEN db ELSE (batch[Len(batch)].id :> batch[Len(batch)])

RECURSIVE ApplyBatch(_, _)
ApplyBatch(db, batch) ==
  IF batch = <<>> THEN db
  ELSE ApplyBatch((Head(batch).id :> Head(batch)) @@ db, Tail(batch))

UpsertCommitted(u) == [u EXCEPT !.i = @ + BATCH_SIZE, !.k = 0, !.batch = <<>>]

\* --------------------------------------------------------------- ensureData
\* seedProductToProduct
seedProductToProduct(sp, t) ==
  [ id |-> sp.id, name |-> sp.name, producer |-> sp.producer, price |-> sp.price,
    type |-> sp.type, country |-> sp.country,
    tasteProfile |-> sp.tasteProfile, foodPairings |-> sp.foodPairings,
    smokiness |-> sp.smokiness, smokinessLabel |-> sp.smokinessLabel,
    alcoholPercentage |-> sp.alcoholPercentage,
    createdAt |-> t, updatedAt |-> t ]

\* seedStoreToStore
seedStoreToStore(ss, t) ==
  [ id |-> ss.id, name |-> ss.name, openingHoursToday |-> ss.openingHoursToday,
    openingHoursTomorrow |-> ss.openingHoursTomorrow, updatedAt |-> t ]

\* FirestoreService.upsertStore: the document is replaced, updatedAt is the
\* time of the write
upsertStore(db, store, t) == (store.id :> [store EXCEPT !.updatedAt = t]) @@ db

\* variant: the in-flight guard is missing
LoadInFlight_Never(loading) == FALSE

\* `if (seedDataLoading) return seedDataLoading`
LoadInFlight(loading) == loading # 0

\* variant: the catch block leaves the flag alone, so a failure is retried
LoaderCatch_Retry(checked) == checked

\* the catch block's `seedDataChecked = true`
LoaderCatch(checked) == TRUE

LoaderActive(a) == loaders[a].pc \in {"count", "upsert", "stores"}

\* The IIFE ends: try/catch sets the flag, finally clears the handle and the
\* promise settles.  The continuations of the callers awaiting it are
\* microtasks: they run before any other I/O callback, so they belong to
\* this step.
Settle(a, ok, lds) ==
  /\ loaders' = [lds EXCEPT ![a].pc = IF ok THEN "fulfilled" ELSE "rejected"]
  /\ seedDataChecked' = (IF ok THEN TRUE ELSE LoaderCatch(seedDataChecked))
  /\ seedDataLoading' = 0
  /\ callerPc' = [c \in Callers |->
                    IF callerPc[c] = "awaiting" /\ callerAwait[c] = a
                    THEN (IF ok THEN "returned" ELSE "threw")
                    ELSE callerPc[c]]

\* fast path: already checked
CallFast(c) ==
  /\ callerPc[c] = "idle"
  /\ seedDataChecked
  /\ callerPc' = [callerPc EXCEPT ![c] = "returned"]
  /\ UNCHANGED << now, products, stores, syncVars, inputVars, serviceVars, searchVars, toolVars, seedDataChecked,
                  seedDataLoading, loaders, callerAwait, storeChecks, seedLoads >>

\* a load is in flight: return its promise
CallJoin(c) ==
  /\ callerPc[c] = "idle"
  /\ ~seedDataChecked
  /\ LoadInFlight(seedDataLoading)
  /\ callerPc' = [callerPc EXCEPT ![c] = "awaiting"]
  /\ callerAwait' = [callerAwait EXCEPT ![c] = seedDataLoading]
  /\ UNCHANGED << now, products, stores, syncVars, inputVars, serviceVars, searchVars, toolVars, seedDataChecked,
                  seedDataLoading, loaders, storeChecks, seedLoads >>

\* start the IIFE: it runs up to `await firestore.getProductCount()`
CallStart(c) ==
  /\ callerPc[c] = "idle"
  /\ ~seedDataChecked
  /\ ~LoadInFlight(seedDataLoading)
  /\ loaders' = Append(loaders,
       [pc |-> "count", up |-> UpsertInit(<<>>), idx |-> 0, count |-> Null])
  /\ seedDataLoading' = Len(loaders) + 1
  /\ storeChecks' = storeChecks + 1
  /\ callerPc' = [callerPc EXCEPT ![c] = "awaiting"]
  /\ callerAwait' = [callerAwait EXCEPT ![c] = Len(loaders) + 1]
  /\ UNCHANGED << now, products, stores, syncVars, inputVars, serviceVars, searchVars, toolVars, seedDataChecked,
                  seedLoads >>

SeedIsEmpty == Len(seed.products) = 0 /\ Len(seed.stores) = 0

\* getProductCount() returned and nothing is to be loaded
LoaderCountSkip(a) ==
  /\ a \in 1..Len(loaders)
  /\ loaders[a].pc = "count"
  /\ Cardinality(DOMAIN products) > 0 \/ ~seed.present \/ SeedIsEmpty
  /\ Settle(a, TRUE, [loaders EXCEPT ![a].count = Cardinality(DOMAIN products)])
  /\ UNCHANGED << now, products, stores, syncVars, inputVars, serviceVars, searchVars, toolVars,
                  callerAwait, storeChecks, seedLoads >>

\* getProductCount() returned 0 and a non-empty seed bundle was read
LoaderCountLoad(a) ==
  /\ a \in 1..Len(loaders)
  /\ loaders[a].pc = "count"
  /\ Cardinality(DOMAIN products) = 0
  /\ seed.present /\ ~SeedIsEmpty
  /\ seedLoads' = seedLoads + 1
  /\ loaders' = [loaders EXCEPT ![a] =
       IF Len(seed.products) > 0
       THEN [pc |-> "upsert", idx |-> 0, count |-> 0,
             up |-> UpsertInit([i \in 1..Len(seed.products) |->
                                  seedProductToProduct(seed.products[i], now)])]
       ELSE [pc |-> "stores", idx |-> 1, count |-> 0, up |-> UpsertInit(<<>>)]]
  /\ UNCHANGED << now, products, stores, syncVars, inputVars, serviceVars, searchVars, toolVars, seedDataChecked,
                  seedDataLoading, callerPc, callerAwait, storeChecks >>

LoaderGet(a) ==
  /\ a \in 1..Len(loaders)
  /\ loaders[a].pc = "upsert"
  /\ UpsertReading(loaders[a].up)
  /\ loaders' = [loaders EXCEPT ![a].up = UpsertGet(@, products, now)]
  /\ UNCHANGED << now, products, stores, syncVars, inputVars, serviceVars, searchVars, toolVars, seedDataChecked,
                  seedDataLoading, callerPc, callerAwait, storeChecks, seedLoads >>

LoaderCommit(a) ==
  /\ a \in 1..Len(loaders)
  /\ loaders[a].pc = "upsert"
  /\ UpsertReadyToCommit(loaders[a].up)
  /\ products' = ApplyBatch(products, loaders[a].up.batch)
  /\ LET u == UpsertCommitted(loaders[a].up)
         lds == [loaders EXCEPT ![a].up = u]
     IN IF ~UpsertFinished(u)
        THEN loaders' = lds /\ UNCHANGED << seedDataChecked, seedDataLoading, callerPc >>
        ELSE IF Len(seed.stores) > 0
        THEN /\ loaders' = [lds EXCEPT ![a].pc = "stores", ![a].idx = 1]
             /\ UNCHANGED << seedDataChecked, seedDataLoading, callerPc >>
        ELSE Settle(a, TRUE, [lds EXCEPT ![a].up = UpsertInit(<<>>)])
  /\ UNCHANGED << now, stores, syncVars, inputVars, serviceVars, searchVars, toolVars, callerAwait,
                  storeChecks, seedLoads >>

\* seedStoreToStore + upsertStore for one seed store
LoaderStore(a) ==
  /\ a \in 1..Len(loaders)
  /\ loaders[a].pc = "stores"
  /\ stores' = upsertStore(stores, seedStoreToStore(seed.stores[loaders[a].idx], now), now)
  /\ IF loaders[a].idx < Len(seed.stores)
     THEN /\ loaders' = [loaders EXCEPT ![a].idx = @ + 1]
          /\ UNCHANGED << seedDataChecked, seedDataLoading, callerPc >>
     ELSE Settle(a, TRUE, loaders)
  /\ UNCHANGED << now, products, syncVars, inputVars, serviceVars, searchVars, toolVars, callerAwait,
                  storeChecks, seedLoads >>

\* any awaited store operation of the IIFE rejects
LoaderThrow(a) ==
  /\ a \in 1..Len(loaders)
  /\ LoaderActive(a)
  /\ Settle(a, FALSE, [loaders EXCEPT ![a].up = UpsertInit(<<>>)])
  /\ UNCHANGED << now, products, stores, syncVars, inputVars, serviceVars, searchVars, toolVars,
                  callerAwait, storeChecks, seedLoads >>

\* -------------------------------------------------------- downloadPriceList
\* header values of the price-list response, as text
TextHtml == << "t", "e", "x", "t", "/", "h", "t", "m", "l" >>
TypeHtml == TextHtml
TypeHtmlCharset == TextHtml \o << ";", " ", "c", "h", "a", "r", "s", "e", "t", "=", "u", "t", "f", "-", "8" >>
TypePlain == << "t", "e", "x", "t", "/", "p", "l", "a", "i", "n" >>
TypeJson == << "a", "p", "p", "l", "i", "c", "a", "t", "i", "o", "n", "/", "j", "s", "o", "n" >>
TypeXls == << "a", "p", "p", "l", "i", "c", "a", "t", "i", "o", "n", "/",
              "v", "n", "d", ".", "m", "s", "-", "e", "x", "c", "e", "l" >>
TypeXlsx == << "a", "p", "p", "l", "i", "c", "a", "t", "i", "o", "n", "/",
               "v", "n", "d", ".", "o", "p", "e", "n", "x", "m", "l", "f", "o", "r", "m", "a", "t", "s", "-",
               "o", "f", "f", "i", "c", "e", "d", "o", "c", "u", "m", "e", "n", "t", ".",
               "s", "p", "r", "e", "a", "d", "s", "h", "e", "e", "t", "m", "l", ".",
               "s", "h", "e", "e", "t" >>

\* the media types of a spreadsheet (the Accept header of the request)
SpreadsheetTypes == { TypeXls, TypeXlsx }

\* a fetch Response: status, content-type header (<<>> when absent) and body
Responses ==
  [ status : { 200, 204, 403, 503 },
    contentType : { <<>>, <<TypeHtml>>, <<TypeHtmlCharset>>, <<TypePlain>>, <<TypeJson>>,
                    <<TypeXls>>, <<TypeXlsx>> },
    body : { <<HeaderRow, BlankRow>>, <<HeaderRow, Row1>>, <<BannerRow, Row1, Row2>> } ]

NoResponse == [ status |-> 0, contentType |-> <<>>, body |-> <<>> ]

\* Response.ok
ResponseOk(r) == r.status >= 200 /\ r.status <= 299

\* `excelResponse.headers.get('content-type') || ''`
ContentTypeOf(r) == IF r.contentType = <<>> THEN <<>> ELSE r.contentType[1]

DownloadFailedMessage == "Failed to download price list"
BlockedMessage == "Received HTML instead of Excel file - likely blocked by bot protection"

\* data-sync.ts:62-73: the checks on the response of the second request
downloadPriceList(r) ==
  IF ~ResponseOk(r)
  THEN [ ok |-> FALSE, message |-> DownloadFailedMessage, buffer |-> <<>> ]
  ELSE IF Includes(ContentTypeOf(r), TextHtml)
       THEN [ ok |-> FALSE, message |-> BlockedMessage, buffer |-> <<>> ]
       ELSE [ ok |-> TRUE, message |-> "", buffer |-> r.body ]

\* data-sync.ts:62-67: downloadPriceList() throws
DownloadThrows ==
  /\ download = <<>>
  /\ ~downloadPriceList(response).ok
  /\ download' = <<downloadPriceList(response)>>
  /\ UNCHANGED << now, products, stores, syncVars, sheet, seed, response, serviceVars,
                  ensureVars, searchVars, toolVars >>

\* data-sync.ts:70-73: downloadPriceList() returns the buffer
DownloadReturns ==
  /\ download = <<>>
  /\ downloadPriceList(response).ok
  /\ download' = <<downloadPriceList(response)>>
  /\ UNCHANGED << now, products, stores, syncVars, sheet, seed, response, serviceVars,
                  ensureVars, searchVars, toolVars >>

\* ------------------------------------------------------------ syncProducts
\* createSyncLog
createSyncLog(t) ==
  [ type |-> "product_sync", status |-> "started", productsProcessed |-> 0,
    productsAdded |-> 0, productsUpdated |-> 0, errors |-> <<>>,
    startedAt |-> t, completedAt |-> Null ]

\* variant: the counters are written but the run is left open
completeSyncLog_Unsealed(log, result, t) ==
  [log EXCEPT !.productsProcessed = result.productsProcessed,
              !.productsAdded = result.productsAdded,
              !.productsUpdated = result.productsUpdated,
              !.errors = result.errors]

\* completeSyncLog: the result's four fields, status and completion time
completeSyncLog(log, result, t) ==
  [log EXCEPT !.productsProcessed = result.productsProcessed,
              !.productsAdded = result.productsAdded,
              !.productsUpdated = result.productsUpdated,
              !.errors = result.errors,
              !.status = "completed", !.completedAt = t]

\* variant: the failure is logged as a completion
failSyncLog_Completed(log, error, t) ==
  [log EXCEPT !.status = "completed", !.errors = <<error>>, !.completedAt = t]

\* failSyncLog: status, the one-element error list and completion time
failSyncLog(log, error, t) ==
  [log EXCEPT !.status = "failed", !.errors = <<error>>, !.completedAt = t]

\* the value syncProducts returns from its try block
SuccessResult(u, errors) ==
  [ success |-> TRUE, productsProcessed |-> Len(u.ps), productsAdded |-> u.added,
    productsUpdated |-> u.updated, errors |-> errors ]

\* variant: the catch block returns an empty error list
FailureResult_NoMessage(message) ==
  [ success |-> FALSE, productsProcessed |-> 0, productsAdded |-> 0,
    productsUpdated |-> 0, errors |-> <<>> ]

\* the value syncProducts returns from its catch block
FailureResult(message) ==
  [ success |-> FALSE, productsProcessed |-> 0, productsAdded |-> 0,
    productsUpdated |-> 0, errors |-> << <<message>> >> ]

NoResult ==
  [ success |-> FALSE, productsProcessed |-> 0, productsAdded |-> 0,
    productsUpdated |-> 0, errors |-> <<>> ]

WriteFailedMessage == "batch write failed"

RunIds == 1..Len(runs)

\* try block ends: completeSyncLog, return result
Complete(r, u, errors, rs) ==
  /\ syncLogs' = [syncLogs EXCEPT ![r] = completeSyncLog(@, SuccessResult(u, errors), now')]
  /\ runs' = [rs EXCEPT ![r].pc = "done", ![r].result = SuccessResult(u, errors),
                        ![r].up = UpsertInit(<<>>), ![r].errors = <<>>]

\* catch block: failSyncLog, return the failure result
Fail(r, message, rs) ==
  /\ syncLogs' = [syncLogs EXCEPT ![r] = failSyncLog(@, <<message>>, now')]
  /\ runs' = [rs EXCEPT ![r].pc = "done", ![r].result = FailureResult(message),
                        ![r].up = UpsertInit(<<>>), ![r].errors = <<>>]

\* syncProducts() is invoked: createSyncLog.  Runs are issued one after
\* another; a run overlaps with ensureData's seed load, not with another run.
SyncStart ==
  /\ Len(runs) < MaxRuns
  /\ \A q \in 1..Len(runs) : runs[q].pc = "done"
  /\ syncLogs' = Append(syncLogs, createSyncLog(now))
  /\ runs' = Append(runs,
       [ pc |-> "download", errors |-> <<>>, up |-> UpsertInit(<<>>),
         result |-> NoResult, written |-> 0,
         afterCompleted |-> \E q \in 1..Len(syncLogs) : syncLogs[q].status = "completed" ])
  /\ UNCHANGED << now, products, stores, inputVars, serviceVars, searchVars, toolVars, ensureVars >>

\* downloadPriceList throws (HTTP error, or HTML instead of a spreadsheet)
SyncDownloadFail(r) ==
  /\ r \in RunIds
  /\ runs[r].pc = "download"
  /\ now' = now
  /\ Fail(r, DownloadFailedMessage, runs)
  /\ UNCHANGED << products, stores, inputVars, serviceVars, searchVars, toolVars, ensureVars >>

\* the download succeeded but parseAlkoExcel throws
SyncParseFail(r) ==
  /\ r \in RunIds
  /\ runs[r].pc = "download"
  /\ now' = now + 1
  /\ ~parseAlkoExcel(sheet, now').ok
  /\ Fail(r, parseAlkoExcel(sheet, now').message, runs)
  /\ UNCHANGED << products, stores, inputVars, serviceVars, searchVars, toolVars, ensureVars >>

\* download, parse and validate succeed; upsertProducts(valid) begins
SyncDownload(r) ==
  /\ r \in RunIds
  /\ runs[r].pc = "download"
  /\ now' = now + 1
  /\ parseAlkoExcel(sheet, now').ok
  /\ LET parsed == parseAlkoExcel(sheet, now').products
         u == UpsertInit(ValidProducts(parsed))
         errors == ValidationErrors(parsed)
         rs == [runs EXCEPT ![r].errors = errors, ![r].up = u]
     IN IF UpsertFinished(u)
        THEN Complete(r, u, errors, rs)
        ELSE /\ runs' = [rs EXCEPT ![r].pc = "upsert"]
             /\ UNCHANGED syncLogs
  /\ UNCHANGED << products, stores, inputVars, serviceVars, searchVars, toolVars, ensureVars >>

SyncGet(r) ==
  /\ r \in RunIds
  /\ runs[r].pc = "upsert"
  /\ UpsertReading(runs[r].up)
  /\ runs' = [runs EXCEPT ![r].up = UpsertGet(@, products, now)]
  /\ UNCHANGED << now, products, stores, syncLogs, inputVars, serviceVars, searchVars, toolVars, ensureVars >>

SyncCommit(r) ==
  /\ r \in RunIds
  /\ runs[r].pc = "upsert"
  /\ UpsertReadyToCommit(runs[r].up)
  /\ products' = ApplyBatch(products, runs[r].up.batch)
  /\ now' = now
  /\ LET u == UpsertCommitted(runs[r].up)
         rs == [runs EXCEPT ![r].up = u, ![r].written = @ + Len(runs[r].up.batch)]
     IN IF UpsertFinished(u)
        THEN Complete(r, u, runs[r].errors, rs)
        ELSE runs' = rs /\ UNCHANGED syncLogs
  /\ UNCHANGED << stores, inputVars, serviceVars, searchVars, toolVars, ensureVars >>

\* ref.get() or batch.commit() rejects: the pending batch is dropped
SyncUpsertThrow(r) ==
  /\ r \in RunIds
  /\ runs[r].pc = "upsert"
  /\ now' = now
  /\ Fail(r, WriteFailedMessage, runs)
  /\ UNCHANGED << products, stores, inputVars, serviceVars, searchVars, toolVars, ensureVars >>

\* ----------------------------------------------------------- searchProducts
\* firestore.ts:113: fetch bound of a text search
TEXT_FETCH_LIMIT == 15000

\* UTF-8 byte order of the characters in use (Firestore orders strings by it)
ByteRank(c) ==
  CASE c = " " -> 32 [] c = "1" -> 49 [] c = "2" -> 50 [] c = "3" -> 51
    [] c = "A" -> 65 [] c = "B" -> 66 [] c = "C" -> 67
    [] c = "a" -> 97 [] c = "b" -> 98 [] c = "c" -> 99
    [] OTHER -> 127

RECURSIVE ByteCompare(_, _)
ByteCompare(s, t) ==
  IF s = <<>> /\ t = <<>> THEN 0
  ELSE IF s = <<>> THEN -1
  ELSE IF t = <<>> THEN 1
  ELSE IF ByteRank(Head(s)) < ByteRank(Head(t)) THEN -1
  ELSE IF ByteRank(Head(s)) > ByteRank(Head(t)) THEN 1
  ELSE ByteCompare(Tail(s), Tail(t))

\* primary collation weight: space, then digits, then letters without case
PrimaryRank(c) ==
  CASE c = " " -> 1 [] c = "1" -> 11 [] c = "2" -> 12 [] c = "3" -> 13
    [] LowerChar(c) = "a" -> 21 [] LowerChar(c) = "b" -> 22
    [] LowerChar(c) = "c" -> 23 [] OTHER -> 99

\* tertiary weight: lower case before upper case
TertiaryRank(c) == IF LowerChar(c) # c THEN 2 ELSE 1

RECURSIVE RankCompare(_, _)
RankCompare(s, t) ==
  IF s = <<>> /\ t = <<>> THEN 0
  ELSE IF s = <<>> THEN -1
  ELSE IF t = <<>> THEN 1
  ELSE IF Head(s) < Head(t) THEN -1
  ELSE IF Head(s) > Head(t) THEN 1
  ELSE RankCompare(Tail(s), Tail(t))

\* a.localeCompare(b, 'fi'): primary weights decide, then case
LocaleCompare(a, b) ==
  LET pa == [i \in 1..Len(a) |-> PrimaryRank(a[i])]
      pb == [i \in 1..Len(b) |-> PrimaryRank(b[i])]
      ta == [i \in 1..Len(a) |-> TertiaryRank(a[i])]
      tb == [i \in 1..Len(b) |-> TertiaryRank(b[i])]
  IN IF RankCompare(pa, pb) # 0 THEN RankCompare(pa, pb) ELSE RankCompare(ta, tb)

\* s.split(/\s+/).filter(w => w.length > 0)
RECURSIVE SplitWords(_, _)
SplitWords(s, word) ==
  IF s = <<>> THEN (IF word = <<>> THEN <<>> ELSE <<word>>)
  ELSE IF IsSpace(Head(s))
       THEN (IF word = <<>> THEN <<>> ELSE <<word>>) \o SplitWords(Tail(s), <<>>)
       ELSE SplitWords(Tail(s), Append(word, Head(s)))

QueryWords(queryLower) == SplitWords(queryLower, <<>>)

\* fields.filter(Boolean).join(' ')
RECURSIVE JoinWithSpace(_)
JoinWithSpace(fields) ==
  IF fields = <<>> THEN <<>>
  ELSE IF Len(fields) = 1 THEN Head(fields)
  ELSE Head(fields) \o <<" ">> \o JoinWithSpace(Tail(fields))

JoinFields(fields) == JoinWithSpace(SelectSeq(fields, LAMBDA x : x # <<>>))

\* the lower-cased concatenation of the searchable fields
SearchableText(p) == ToLowerCase(JoinFields(<<p.name, p.producer, p.country, p.type>>))

EveryWordIn(words, text) == \A i \in 1..Len(words) : Includes(text, words[i])

\* `if (filters.query)`: undefined and '' are falsy
HasQuery(f) == f.query # <<>> /\ f.query[1] # <<>>

\* the other searchable fields, in source order, empty ones dropped
OtherFields(p) ==
  LET fs == SelectSeq(<<p.country, p.type>>, LAMBDA x : x # <<>>)
  IN [i \in 1..Len(fs) |-> ToLowerCase(fs[i])]

RECURSIVE ScoreOtherFields(_, _, _)
ScoreOtherFields(fields, queryLower, words) ==
  IF fields = <<>> THEN 20
  ELSE IF Includes(Head(fields), queryLower) THEN 40
  ELSE IF EveryWordIn(words, Head(fields)) THEN 30
  ELSE ScoreOtherFields(Tail(fields), queryLower, words)

\* variant: all words in the name score below a producer match
calculateRelevanceScore_NameWordsLow(p, queryLower, words) ==
  LET nameLower == ToLowerCase(p.name)
      producerLower == ToLowerCase(p.producer)
  IN IF Includes(nameLower, queryLower) THEN 100
     ELSE IF EveryWordIn(words, nameLower) THEN 45
     ELSE IF Includes(producerLower, queryLower) THEN 60
     ELSE IF EveryWordIn(words, producerLower) THEN 50
     ELSE ScoreOtherFields(OtherFields(p), queryLower, words)

\* calculateRelevanceScore
calculateRelevanceScore(p, queryLower, words) ==
  LET nameLower == ToLowerCase(p.name)
      producerLower == ToLowerCase(p.producer)
  IN IF Includes(nameLower, queryLower) THEN 100
     ELSE IF EveryWordIn(words, nameLower) THEN 80
     ELSE IF Includes(producerLower, queryLower) THEN 60
     ELSE IF EveryWordIn(words, producerLower) THEN 50
     ELSE ScoreOtherFields(OtherFields(p), queryLower, words)

\* the where() clauses the store evaluates
StoreFilter(p, f) ==
  /\ f.type # <<>> => p.type = f.type[1]
  /\ f.minPrice # <<>> => p.price >= f.minPrice[1]

SortKeyCompare(a, b, sortBy) ==
  IF sortBy = "price"
  THEN (IF a.price < b.price THEN -1 ELSE IF a.price > b.price THEN 1 ELSE 0)
  ELSE ByteCompare(a.name, b.name)

\* orderBy(sortBy, sortOrder): ties are broken by document id, in the same
\* direction
StoreBefore(a, b, sortBy, sortOrder) ==
  LET c == IF SortKeyCompare(a, b, sortBy) # 0
           THEN SortKeyCompare(a, b, sortBy) ELSE ByteCompare(a.id, b.id)
  IN IF sortOrder = "desc" THEN c > 0 ELSE c < 0

RECURSIVE StoreOrdered(_, _, _)
StoreOrdered(docs, sortBy, sortOrder) ==
  IF docs = {} THEN <<>>
  ELSE LET first == CHOOSE d \in docs :
                      \A e \in docs \ {d} : StoreBefore(d, e, sortBy, sortOrder)
       IN <<first>> \o StoreOrdered(docs \ {first}, sortBy, sortOrder)

\* Array.prototype.slice(from, to) for 0 <= from <= to
Slice(s, from, to) == SubSeq(s, from + 1, Min(to, Len(s)))

\* query.limit(n).where(...).orderBy(...).get()
StoreQuery(db, f, o, fetchLimit) ==
  Slice(StoreOrdered({ db[id] : id \in { i \in DOMAIN db : StoreFilter(db[i], f) } },
                     o.sortBy, o.sortOrder),
        0, fetchLimit)

\* variant: equal scores are ordered by name descending
RelevanceCompare_NameDescending(a, b, queryLower, words) ==
  IF calculateRelevanceScore(b, queryLower, words) # calculateRelevanceScore(a, queryLower, words)
  THEN calculateRelevanceScore(b, queryLower, words) - calculateRelevanceScore(a, queryLower, words)
  ELSE LocaleCompare(b.name, a.name)

\* the comparator of the relevance sort
RelevanceCompare(a, b, queryLower, words) ==
  IF calculateRelevanceScore(b, queryLower, words) # calculateRelevanceScore(a, queryLower, words)
  THEN calculateRelevanceScore(b, queryLower, words) - calculateRelevanceScore(a, queryLower, words)
  ELSE LocaleCompare(a.name, b.name)

\* Array.prototype.sort is stable: x goes behind every element not after it
RECURSIVE InsertByRelevance(_, _, _, _)
InsertByRelevance(sorted, x, queryLower, words) ==
  IF sorted = <<>> THEN <<x>>
  ELSE IF RelevanceCompare(Head(sorted), x, queryLower, words) <= 0
       THEN <<Head(sorted)>> \o InsertByRelevance(Tail(sorted), x, queryLower, words)
       ELSE <<x>> \o sorted

RECURSIVE SortByRelevance(_, _, _)
SortByRelevance(ps, queryLower, words) ==
  IF ps = <<>> THEN <<>>
  ELSE InsertByRelevance(SortByRelevance(SubSeq(ps, 1, Len(ps) - 1), queryLower, words),
                         ps[Len(ps)], queryLower, words)

\* the text filter and the relevance sort
TextSearch(ps, query) ==
  LET queryLower == ToLowerCase(query)
      words == QueryWords(queryLower)
  IN SortByRelevance(SelectSeq(ps, LAMBDA p : EveryWordIn(words, SearchableText(p))),
                     queryLower, words)

\* the client-side smokiness filters
SmokinessFilter(ps, f) ==
  LET a == IF f.minSmokiness # <<>>
           THEN SelectSeq(ps, LAMBDA p : p.smokiness # Null /\ p.smokiness >= f.minSmokiness[1])
           ELSE ps
  IN IF f.maxSmokiness # <<>>
     THEN SelectSeq(a, LAMBDA p : p.smokiness # Null /\ p.smokiness <= f.maxSmokiness[1])
     ELSE a

\* variant: hasMore compares with >=
Paginate_HasMoreGeq(ps, offset, limit) ==
  [ products |-> Slice(ps, offset, offset + limit), total |-> Len(ps),
    limit |-> limit, offset |-> offset, hasMore |-> Len(ps) >= offset + limit ]

\* firestore.ts:205-218: total, slice, hasMore
Paginate(ps, offset, limit) ==
  [ products |-> Slice(ps, offset, offset + limit), total |-> Len(ps),
    limit |-> limit, offset |-> offset, hasMore |-> Len(ps) > offset + limit ]

\* firestore.ts:113
FetchLimit(f, o) == IF HasQuery(f) THEN TEXT_FETCH_LIMIT ELSE o.limit + 1

\* FirestoreService.searchProducts(filters, options)
searchProducts(db, f, o) ==
  LET fetched == StoreQuery(db, f, o, FetchLimit(f, o))
      ranked == IF HasQuery(f) THEN TextSearch(fetched, f.query[1]) ELSE fetched
  IN Paginate(SmokinessFilter(ranked, f), o.offset, o.limit)

\* --------------------------------------------------------------- getProduct
\* EnrichedProductData (scraper.ts:12-21): the string fields are null (<<>>)
\* or a text, foodPairings is an array, smokiness is null or the icon count
EnrichedData(taste, pairings, smokiness, label) ==
  [ tasteProfile |-> taste, foodPairings |-> pairings,
    smokiness |-> smokiness, smokinessLabel |-> label ]

\* what scrapeProductDetails resolves to: null (<<>>) after a failed
\* navigation, else what the page holds: nothing, pairing symbols, or a
\* smokiness block, whose label is read only together with the icon count
ScrapeOutcomes ==
  { <<>>,
    << EnrichedData(<<>>, <<>>, Null, <<>>) >>,
    << EnrichedData(<<>>, <<NameB>>, Null, <<>>) >>,
    << EnrichedData(<<>>, <<>>, 0, <<NameC>>) >> }

\* the product ids asked for
GetIds == { Txt1, Txt2 }

\* variant: only the text fields count as enriched data
hasEnrichedData_TextOnly(product) ==
  product.tasteProfile # <<>> /\ product.tasteProfile[1] # <<>>

\* get-product.ts:54-57: a non-empty text, a non-empty list or a non-null
\* smokiness
hasEnrichedData(product) ==
  \/ product.tasteProfile # <<>> /\ product.tasteProfile[1] # <<>>
  \/ product.foodPairings # <<>> /\ Len(product.foodPairings[1]) > 0
  \/ product.smokiness # Null

\* get-product.ts:68-77: an empty list is stored as null
enrichedFields(enrichedData) ==
  [ tasteProfile |-> enrichedData.tasteProfile,
    foodPairings |-> IF Len(enrichedData.foodPairings) > 0
                     THEN <<enrichedData.foodPairings>> ELSE <<>>,
    smokiness |-> enrichedData.smokiness,
    smokinessLabel |-> enrichedData.smokinessLabel ]

\* { ...product, ...fields }
MergeFields(product, fields) ==
  [product EXCEPT !.tasteProfile = fields.tasteProfile,
                  !.foodPairings = fields.foodPairings,
                  !.smokiness = fields.smokiness,
                  !.smokinessLabel = fields.smokinessLabel]

\* FirestoreService.updateProduct: the fields and updatedAt, nothing else
updateProduct(doc, updates, t) == [MergeFields(doc, updates) EXCEPT !.updatedAt = t]

\* a getProduct call: its input, its position, the local `product`
\* (<<>> is null), the fields awaiting the write, and what it returned;
\* read is the document firestore.getProduct() gave, scraped and wrote
\* tell whether the call invoked the scraper and updateProduct
NewGet(id, inc, pc, result) ==
  [ productId |-> id, includeEnrichedData |-> inc, pc |-> pc,
    product |-> <<>>, fields |-> <<>>, result |-> result,
    read |-> <<>>, scraped |-> FALSE, wrote |-> FALSE ]

\* cache.setProduct(id, product); return product
GetReturn(g, product) ==
  /\ gets' = [gets EXCEPT ![g].pc = "done", ![g].product = <<>>, ![g].fields = <<>>,
                          ![g].result = <<product>>]
  /\ productCache' = (gets[g].productId :> product) @@ productCache

\* get-product.ts:38-42: a cached product answers a call that does not ask
\* for enriched data
GetCacheHit(id) ==
  /\ Len(gets) < MaxGets
  /\ seedDataChecked
  /\ id \in DOMAIN productCache
  /\ gets' = Append(gets, NewGet(id, FALSE, "done", <<productCache[id]>>))
  /\ UNCHANGED << now, products, stores, syncVars, inputVars, serviceVars, ensureVars, searchVars,
                  productCache, scrapes, availVars, hoursCalls, scraperVars >>

\* get-product.ts:45: every other call queries the store
GetQuery(id, inc) ==
  /\ Len(gets) < MaxGets
  /\ seedDataChecked
  /\ inc \/ id \notin DOMAIN productCache
  /\ gets' = Append(gets, NewGet(id, inc, "read", <<>>))
  /\ UNCHANGED << now, products, stores, syncVars, inputVars, serviceVars, ensureVars, searchVars,
                  productCache, scrapes, availVars, hoursCalls, scraperVars >>

\* get-product.ts:47-49: no such product
GetNotFound(g) ==
  /\ g \in 1..Len(gets)
  /\ gets[g].pc = "read"
  /\ gets[g].productId \notin DOMAIN products
  /\ gets' = [gets EXCEPT ![g].pc = "done"]
  /\ UNCHANGED << now, products, stores, syncVars, inputVars, serviceVars, ensureVars, searchVars,
                  productCache, scrapes, availVars, hoursCalls, scraperVars >>

\* get-product.ts:52-60, 111-115: the product is returned as stored when no
\* enriched data is asked for or it already has some
GetStored(g) ==
  /\ g \in 1..Len(gets)
  /\ gets[g].pc = "read"
  /\ gets[g].productId \in DOMAIN products
  /\ LET product == products[gets[g].productId] IN
       /\ ~gets[g].includeEnrichedData \/ hasEnrichedData(product)
       /\ gets' = [gets EXCEPT ![g].pc = "done", ![g].read = <<product>>,
                               ![g].result = <<product>>]
       /\ productCache' = (gets[g].productId :> product) @@ productCache
  /\ UNCHANGED << now, products, stores, syncVars, inputVars, serviceVars, ensureVars, searchVars,
                  scrapes, availVars, hoursCalls, scraperVars >>

\* get-product.ts:61-65: enriched data is asked for and the product has
\* none: scrapeProductDetails is invoked
GetScrape(g) ==
  /\ g \in 1..Len(gets)
  /\ gets[g].pc = "read"
  /\ gets[g].productId \in DOMAIN products
  /\ LET product == products[gets[g].productId] IN
       /\ gets[g].includeEnrichedData /\ ~hasEnrichedData(product)
       /\ gets' = [gets EXCEPT ![g].pc = "scrape", ![g].read = <<product>>,
                               ![g].product = <<product>>, ![g].scraped = TRUE]
       /\ scrapes' = (gets[g].productId :>
                        (IF gets[g].productId \in DOMAIN scrapes
                         THEN scrapes[gets[g].productId] + 1 ELSE 1)) @@ scrapes
  /\ UNCHANGED << now, products, stores, syncVars, inputVars, serviceVars, ensureVars, searchVars,
                  productCache, availVars, hoursCalls, scraperVars >>

\* get-product.ts:67, 104-106: the scrape gave nothing (null or a throw):
\* the base product is returned
GetScrapeFailed(g) ==
  /\ g \in 1..Len(gets)
  /\ gets[g].pc = "scrape"
  /\ GetReturn(g, gets[g].product[1])
  /\ UNCHANGED << now, products, stores, syncVars, inputVars, serviceVars, ensureVars, searchVars,
                  scrapes, availVars, hoursCalls, scraperVars >>

\* get-product.ts:67-87: the scraped fields are merged into the local
\* product and updateProduct is called
GetScraped(g, outcome) ==
  /\ g \in 1..Len(gets)
  /\ gets[g].pc = "scrape"
  /\ outcome # <<>>
  /\ gets' = [gets EXCEPT ![g].pc = "persist",
                          ![g].fields = <<enrichedFields(outcome[1])>>,
                          ![g].product = <<MergeFields(gets[g].product[1],
                                                       enrichedFields(outcome[1]))>>,
                          ![g].wrote = TRUE]
  /\ UNCHANGED << now, products, stores, syncVars, inputVars, serviceVars, ensureVars, searchVars,
                  productCache, scrapes, availVars, hoursCalls, scraperVars >>

\* get-product.ts:87-88: the write succeeded
GetPersisted(g) ==
  /\ g \in 1..Len(gets)
  /\ gets[g].pc = "persist"
  /\ gets[g].productId \in DOMAIN products
  /\ products' = [products EXCEPT ![gets[g].productId] =
                    updateProduct(@, gets[g].fields[1], now)]
  /\ GetReturn(g, gets[g].product[1])
  /\ UNCHANGED << now, stores, syncVars, inputVars, serviceVars, ensureVars, searchVars,
                  scrapes, availVars, hoursCalls, scraperVars >>

\* get-product.ts:89-91: the write failed and is only logged
GetPersistFailed(g) ==
  /\ g \in 1..Len(gets)
  /\ gets[g].pc = "persist"
  /\ GetReturn(g, gets[g].product[1])
  /\ UNCHANGED << now, products, stores, syncVars, inputVars, serviceVars, ensureVars, searchVars,
                  scrapes, availVars, hoursCalls, scraperVars >>

\* ---------------------------------------------------------- getAvailability
\* scraper.ts:281: the tri-state status of a quantity
AvailabilityStatus(quantity) ==
  IF quantity > 5 THEN "in_stock" ELSE IF quantity > 0 THEN "low_stock" ELSE "out_of_stock"

\* one store item of the availability panel: store id and first number of
\* the quantity range
StockItem(storeId, quantity) == [storeId |-> storeId, quantity |-> quantity]

\* what the availability panel of the product page may list
SiteStock ==
  { <<>>,
    << StockItem(1, 7) >>,
    << StockItem(1, 0), StockItem(2, 3) >> }

\* the product ids asked for
AvailIds == { Txt1 }

\* scraper.ts:268-285: scraped items to StoreAvailability entities
StoreAvailability(productId, item, t) ==
  [ productId |-> productId, storeId |-> item.storeId, quantity |-> item.quantity,
    status |-> AvailabilityStatus(item.quantity), checkedAt |-> t ]

\* scraper.ts:287-293: the result of a scrape
ScrapedResult(productId, stock, t) ==
  [ productId |-> productId,
    stores |-> [i \in 1..Len(stock) |-> StoreAvailability(productId, stock[i], t)],
    checkedAt |-> t, fromCache |-> FALSE ]

\* FirestoreService.upsertAvailability: one document per (product, store),
\* stamped with the time of the write; other documents are left alone
RECURSIVE upsertAvailability(_, _, _)
upsertAvailability(db, records, t) ==
  IF records = <<>> THEN db
  ELSE upsertAvailability(
         (<<Head(records).productId, Head(records).storeId>> :>
            [Head(records) EXCEPT !.checkedAt = t]) @@ db,
         Tail(records), t)

\* FirestoreService.getAvailability: the documents of the product, in the
\* order of their ids
RECURSIVE RecordsInOrder(_, _)
RecordsInOrder(db, keys) ==
  IF keys = {} THEN <<>>
  ELSE LET k == CHOOSE x \in keys : \A y \in keys : x[2] <= y[2]
       IN <<db[k]>> \o RecordsInOrder(db, keys \ {k})

getAvailabilityRecords(db, productId) ==
  RecordsInOrder(db, { k \in DOMAIN db : k[1] = productId })

\* `{ ...cached, fromCache: true }`
FromCache(result) == [result EXCEPT !.fromCache = TRUE]

\* getCachedAvailability (scraper.ts:325-350): the memory entry, else the
\* stored records, else null (<<>>)
getCachedAvailability(cache, db, productId) ==
  IF productId \in DOMAIN cache THEN << FromCache(cache[productId]) >>
  ELSE LET stored == getAvailabilityRecords(db, productId)
       IN IF Len(stored) > 0
          THEN << [ productId |-> productId, stores |-> stored,
                    checkedAt |-> stored[1].checkedAt, fromCache |-> TRUE ] >>
          ELSE <<>>

\* the memory cache after getCachedAvailability: a result built from the
\* stored records is put into it
CacheAfterLookup(cache, db, productId) ==
  IF productId \notin DOMAIN cache /\ getCachedAvailability(cache, db, productId) # <<>>
  THEN (productId :> getCachedAvailability(cache, db, productId)[1]) @@ cache
  ELSE cache

\* variant: the failure of the scrape is answered with null
FallbackResult_Null(cached) == <<>>

\* get-availability.ts:74-80: what the catch block returns
FallbackResult(cached) == cached

\* scraper.ts:159-164: getProductAvailability answers from its memory cache
ScraperCacheHit(cache, call) == call.productId \in DOMAIN cache

\* a getAvailability call: input, position, what it returned (<<>> until it
\* returns, << <<>> >> is null), the result of its scrape while it is being
\* stored, and whether it navigated to the site, whether the extraction
\* succeeded and whether a failure of the site sent it to the catch block
NewAvailCall(id, force) ==
  [ productId |-> id, forceRefresh |-> force,
    pc |-> IF force THEN "scrape" ELSE "cached",
    result |-> <<>>, scraped |-> <<>>,
    navigated |-> FALSE, extracted |-> FALSE, siteFailed |-> FALSE ]

AvailReturn(c, value) ==
  availCalls' = [availCalls EXCEPT ![c].pc = "done", ![c].result = <<value>>,
                                   ![c].scraped = <<>>]

\* get-availability.ts:25-37: calls are taken one at a time
AvailStart(id, force) ==
  /\ Len(availCalls) < MaxAvailCalls
  /\ seedDataChecked
  /\ \A c \in 1..Len(availCalls) : availCalls[c].pc = "done"
  /\ availCalls' = Append(availCalls, NewAvailCall(id, force))
  /\ UNCHANGED << now, products, stores, syncVars, inputVars, serviceVars, ensureVars, searchVars,
                  enrichVars, availCache, availability, hoursCalls, scraperVars >>

\* get-availability.ts:39-50: cached data answers the call
AvailCached(c) ==
  /\ c \in 1..Len(availCalls)
  /\ availCalls[c].pc = "cached"
  /\ getCachedAvailability(availCache, availability, availCalls[c].productId) # <<>>
  /\ AvailReturn(c, getCachedAvailability(availCache, availability, availCalls[c].productId))
  /\ availCache' = CacheAfterLookup(availCache, availability, availCalls[c].productId)
  /\ UNCHANGED << now, products, stores, syncVars, inputVars, serviceVars, ensureVars, searchVars,
                  enrichVars, availability, hoursCalls, scraperVars >>

\* get-availability.ts:40, 54-55: nothing cached
AvailCacheMiss(c) ==
  /\ c \in 1..Len(availCalls)
  /\ availCalls[c].pc = "cached"
  /\ getCachedAvailability(availCache, availability, availCalls[c].productId) = <<>>
  /\ availCalls' = [availCalls EXCEPT ![c].pc = "scrape"]
  /\ UNCHANGED << now, products, stores, syncVars, inputVars, serviceVars, ensureVars, searchVars,
                  enrichVars, availCache, availability, hoursCalls, scraperVars >>

\* scraper.ts:159-164, get-availability.ts:60-69: getProductAvailability
\* finds the product in its memory cache
AvailScraperCacheHit(c) ==
  /\ c \in 1..Len(availCalls)
  /\ availCalls[c].pc = "scrape"
  /\ ScraperCacheHit(availCache, availCalls[c])
  /\ AvailReturn(c, << FromCache(availCache[availCalls[c].productId]) >>)
  /\ UNCHANGED << now, products, stores, syncVars, inputVars, serviceVars, ensureVars, searchVars,
                  enrichVars, availCache, availability, hoursCalls, scraperVars >>

\* scraper.ts:166-182, 307-319: the session or the navigation fails; the
\* error reaches the catch block of getAvailability
AvailSiteFailed(c) ==
  /\ c \in 1..Len(availCalls)
  /\ availCalls[c].pc = "scrape"
  /\ ~ScraperCacheHit(availCache, availCalls[c])
  /\ availCalls' = [availCalls EXCEPT ![c].pc = "fallback", ![c].navigated = TRUE,
                                     ![c].siteFailed = TRUE]
  /\ UNCHANGED << now, products, stores, syncVars, inputVars, serviceVars, ensureVars, searchVars,
                  enrichVars, availCache, availability, hoursCalls, scraperVars >>

\* scraper.ts:177-296: the page is read; the result goes into the memory
\* cache before it is stored
AvailExtracted(c, stock) ==
  /\ c \in 1..Len(availCalls)
  /\ availCalls[c].pc = "scrape"
  /\ ~ScraperCacheHit(availCache, availCalls[c])
  /\ now' = now + 1
  /\ LET result == ScrapedResult(availCalls[c].productId, stock, now') IN
       /\ availCache' = (availCalls[c].productId :> result) @@ availCache
       /\ IF Len(result.stores) > 0
          THEN availCalls' = [availCalls EXCEPT ![c].pc = "persist",
                                ![c].navigated = TRUE, ![c].extracted = TRUE,
                                ![c].scraped = <<result>>]
          ELSE availCalls' = [availCalls EXCEPT ![c].pc = "done",
                                ![c].navigated = TRUE, ![c].extracted = TRUE,
                                ![c].result = << <<result>> >>]
  /\ UNCHANGED << products, stores, syncVars, inputVars, serviceVars, ensureVars, searchVars,
                  enrichVars, availability, hoursCalls, scraperVars >>

\* scraper.ts:299-306: the records are stored and the result returned
AvailPersisted(c) ==
  /\ c \in 1..Len(availCalls)
  /\ availCalls[c].pc = "persist"
  /\ availability' = upsertAvailability(availability, availCalls[c].scraped[1].stores, now)
  /\ AvailReturn(c, availCalls[c].scraped)
  /\ UNCHANGED << now, products, stores, syncVars, inputVars, serviceVars, ensureVars, searchVars,
                  enrichVars, availCache, hoursCalls, scraperVars >>

\* scraper.ts:300, 307-319: the write fails; getProductAvailability throws
AvailPersistFailed(c) ==
  /\ c \in 1..Len(availCalls)
  /\ availCalls[c].pc = "persist"
  /\ availCalls' = [availCalls EXCEPT ![c].pc = "fallback", ![c].scraped = <<>>]
  /\ UNCHANGED << now, products, stores, syncVars, inputVars, serviceVars, ensureVars, searchVars,
                  enrichVars, availCache, availability, hoursCalls, scraperVars >>

\* get-availability.ts:70-81: the catch block
AvailFallback(c) ==
  /\ c \in 1..Len(availCalls)
  /\ availCalls[c].pc = "fallback"
  /\ AvailReturn(c, FallbackResult(
         getCachedAvailability(availCache, availability, availCalls[c].productId)))
  /\ availCache' = CacheAfterLookup(availCache, availability, availCalls[c].productId)
  /\ UNCHANGED << now, products, stores, syncVars, inputVars, serviceVars, ensureVars, searchVars,
                  enrichVars, availability, hoursCalls, scraperVars >>

\* an entry of the scraper's memory cache reaches its time to live
AvailCacheExpire(id) ==
  /\ id \in DOMAIN availCache
  /\ availCache' = [i \in DOMAIN availCache \ {id} |-> availCache[i]]
  /\ UNCHANGED << now, products, stores, syncVars, inputVars, serviceVars, ensureVars, searchVars,
                  enrichVars, availability, availCalls, hoursCalls, scraperVars >>

\* ------------------------------------------------------------ getStoreHours
\* The clock counts ticks; a calendar day lasts DayTicks of them.
DayTicks == 2

\* the calendar day of a timestamp: getFullYear, getMonth and getDate
DateOf(t) == t \div DayTicks

\* new Date().getHours() at tick t
HourOf(t) == ((24 * (t % DayTicks)) \div DayTicks + 10) % 24

IsDigit(c) == c \in {"0", "1", "2", "3", "4", "5", "6", "7", "8", "9"}

DigitValue(c) ==
  CASE c = "0" -> 0 [] c = "1" -> 1 [] c = "2" -> 2 [] c = "3" -> 3 [] c = "4" -> 4
    [] c = "5" -> 5 [] c = "6" -> 6 [] c = "7" -> 7 [] c = "8" -> 8 [] c = "9" -> 9

\* parseInt(digits, 10) of one or two digits
parseInt(ds) ==
  IF Len(ds) = 1 THEN DigitValue(ds[1]) ELSE 10 * DigitValue(ds[1]) + DigitValue(ds[2])

DigitAt(s, i) == i <= Len(s) /\ IsDigit(s[i])

\* the second group of the pattern, from position j: two digits if there
\* are two
CloseGroup(s, j) == IF DigitAt(s, j + 1) THEN SubSeq(s, j, j + 1) ELSE SubSeq(s, j, j)

\* openingHours.match(/(\d{1,2})-(\d{1,2})/): the leftmost match, each group
\* as long as it can be; <<>> when there is none
RECURSIVE MatchHours(_, _)
MatchHours(s, i) ==
  IF i > Len(s) THEN <<>>
  ELSE IF DigitAt(s, i) /\ DigitAt(s, i + 1) /\ i + 2 <= Len(s) /\ s[i + 2] = "-"
          /\ DigitAt(s, i + 3)
       THEN << SubSeq(s, i, i + 1), CloseGroup(s, i + 3) >>
  ELSE IF DigitAt(s, i) /\ i + 1 <= Len(s) /\ s[i + 1] = "-" /\ DigitAt(s, i + 2)
       THEN << SubSeq(s, i, i), CloseGroup(s, i + 2) >>
  ELSE MatchHours(s, i + 1)

\* isStoreOpenNow: null (<<>>), '' and SULJETTU are closed
isStoreOpenNow(openingHours, hour) ==
  IF openingHours = <<>> \/ openingHours[1] = <<>> \/ openingHours[1] = HoursClosed
  THEN FALSE
  ELSE LET match == MatchHours(openingHours[1], 1) IN
       IF match = <<>> THEN FALSE
       ELSE hour >= parseInt(match[1]) /\ hour < parseInt(match[2])

\* variant: a store is stale only when it has no timestamp
isStoreDataStale_NoTimestamp(store, t) == store.updatedAt = Null

\* isStoreDataStale: not updated on the calendar day of the clock
isStoreDataStale(store, t) ==
  IF store.updatedAt = Null THEN TRUE ELSE DateOf(store.updatedAt) # DateOf(t)

\* stores.some(isStoreDataStale) on a non-empty list
HasStaleData(list, t) ==
  Len(list) > 0 /\ \E i \in 1..Len(list) : isStoreDataStale(list[i], t)

\* FirestoreService.listStores: by name under the locale-aware comparison
RECURSIVE StoresByName(_)
StoresByName(docs) ==
  IF docs = {} THEN <<>>
  ELSE LET first == CHOOSE d \in docs :
                      \A e \in docs \ {d} : LocaleCompare(d.name, e.name) < 0
       IN <<first>> \o StoresByName(docs \ {first})

\* getStore(storeId) or listStores()
FetchStores(db, input) ==
  IF input.storeId # <<>>
  THEN (IF input.storeId[1] \in DOMAIN db THEN << db[input.storeId[1]] >> ELSE <<>>)
  ELSE StoresByName({ db[id] : id \in DOMAIN db })

\* part_005:457-468: the entry of one store
StoreHoursEntry(store, t) ==
  LET storeIsStale == isStoreDataStale(store, t) IN
  [ id |-> store.id,
    openingHoursToday |-> IF storeIsStale THEN <<>> ELSE store.openingHoursToday,
    openingHoursTomorrow |-> IF storeIsStale THEN <<>> ELSE store.openingHoursTomorrow,
    isOpenNow |-> IF storeIsStale THEN FALSE
                  ELSE isStoreOpenNow(store.openingHoursToday, HourOf(t)) ]

\* part_005:439-453: the day of the oldest update, null (<<>>) without stores
DataAsOf(list) ==
  IF Len(list) = 0 THEN <<>>
  ELSE << DateOf(CHOOSE u \in { list[i].updatedAt : i \in 1..Len(list) } :
                   \A i \in 1..Len(list) : u <= list[i].updatedAt) >>

\* part_005:436-496: the value getStoreHours returns
StoreHoursResult(list, input, refreshed, refreshError, t) ==
  LET entries == [i \in 1..Len(list) |-> StoreHoursEntry(list[i], t)]
      open == IF input.openNow THEN SelectSeq(entries, LAMBDA e : e.isOpenNow) ELSE entries
  IN [ stores |-> Slice(open, 0, input.limit), currentTime |-> HourOf(t),
       dataAsOf |-> DataAsOf(list), refreshed |-> refreshed,
       refreshError |-> refreshError ]

\* the inputs of getStoreHours: one store or all, open ones only or not
HoursInputs ==
  { [ storeId |-> <<>>, openNow |-> FALSE, limit |-> MaxLimit ],
    [ storeId |-> <<>>, openNow |-> TRUE, limit |-> MaxLimit ],
    [ storeId |-> <<>>, openNow |-> FALSE, limit |-> 1 ],
    [ storeId |-> <<"s1">>, openNow |-> FALSE, limit |-> MaxLimit ] }

\* what the store pages of the site show on a later day
SiteOutlet1 == SeedStoreItem("s1", NameAb, <<Hours10to22>>, <<Hours9to18>>)
SiteOutlets == { <<>>, <<SiteOutlet1>>, <<SiteOutlet1, Outlet2>> }

RefreshFailedMessage == <<"r", "e", "f", "r", "e", "s", "h">>
ScrapeFailedMessage == <<"s", "c", "r", "a", "p", "e">>

\* createSyncLog('store_sync', ...)
createStoreSyncLog(t) == [createSyncLog(t) EXCEPT !.type = "store_sync"]

\* data-sync.ts:157-168: the counters syncStores reports
StoreSyncResult(n) ==
  [ success |-> TRUE, productsProcessed |-> n, productsAdded |-> n,
    productsUpdated |-> 0, errors |-> <<>> ]

\* scraper.ts:752-757: every scraped store is written
RECURSIVE SaveStores(_, _, _)
SaveStores(db, scraped, t) ==
  IF scraped = <<>> THEN db
  ELSE SaveStores(upsertStore(db, seedStoreToStore(Head(scraped), t), t), Tail(scraped), t)

\* a getStoreHours call: input, position, the local `stores`, the sync log
\* of its refresh, refreshed, and the result with the clock reading it was
\* computed at
NewHoursCall(input) ==
  [ input |-> input, pc |-> "read", stores |-> <<>>, log |-> 0,
    refreshed |-> FALSE, result |-> <<>>, at |-> 0 ]

HoursReturn(h, list, refreshed, refreshError) ==
  hoursCalls' = [hoursCalls EXCEPT
    ![h].pc = "done", ![h].stores = list, ![h].refreshed = refreshed, ![h].at = now,
    ![h].result = << StoreHoursResult(list, hoursCalls[h].input, refreshed,
                                      refreshError, now) >>]

\* part_005:378-390: calls are taken one at a time
HoursStart(input) ==
  /\ Len(hoursCalls) < MaxHoursCalls
  /\ seedDataChecked
  /\ \A h \in 1..Len(hoursCalls) : hoursCalls[h].pc = "done"
  /\ hoursCalls' = Append(hoursCalls, NewHoursCall(input))
  /\ UNCHANGED << now, products, stores, syncVars, inputVars, serviceVars, ensureVars, searchVars,
                  enrichVars, availVars, scraperVars >>

\* part_005:382-402, 436-496: no store read is stale
HoursFresh(h) ==
  /\ h \in 1..Len(hoursCalls)
  /\ hoursCalls[h].pc = "read"
  /\ ~HasStaleData(FetchStores(stores, hoursCalls[h].input), now)
  /\ HoursReturn(h, FetchStores(stores, hoursCalls[h].input), FALSE, <<>>)
  /\ UNCHANGED << now, products, stores, syncVars, inputVars, serviceVars, ensureVars, searchVars,
                  enrichVars, availVars, scraperVars >>

\* part_005:402-410, data-sync.ts:147: a store read is stale and
\* syncStores() begins with its sync log
HoursStale(h) ==
  /\ h \in 1..Len(hoursCalls)
  /\ hoursCalls[h].pc = "read"
  /\ HasStaleData(FetchStores(stores, hoursCalls[h].input), now)
  /\ syncLogs' = Append(syncLogs, createStoreSyncLog(now))
  /\ hoursCalls' = [hoursCalls EXCEPT ![h].pc = "refresh",
                       ![h].stores = FetchStores(stores, hoursCalls[h].input),
                       ![h].log = Len(syncLogs) + 1]
  /\ UNCHANGED << now, products, stores, runs, inputVars, serviceVars, ensureVars, searchVars,
                  enrichVars, availVars, scraperVars >>

\* part_005:427-431: syncStores() rejects (its sync log cannot be written);
\* the stale stores are answered with the error
HoursRefreshThrew(h) ==
  /\ h \in 1..Len(hoursCalls)
  /\ hoursCalls[h].pc = "read"
  /\ HasStaleData(FetchStores(stores, hoursCalls[h].input), now)
  /\ HoursReturn(h, FetchStores(stores, hoursCalls[h].input), FALSE,
                 <<RefreshFailedMessage>>)
  /\ UNCHANGED << now, products, stores, syncVars, inputVars, serviceVars, ensureVars, searchVars,
                  enrichVars, availVars, scraperVars >>

\* data-sync.ts:153-168, scraper.ts:752-757: the site is scraped and the
\* stores it shows are written
HoursScraped(h, scraped) ==
  /\ h \in 1..Len(hoursCalls)
  /\ hoursCalls[h].pc = "refresh"
  /\ stores' = SaveStores(stores, scraped, now)
  /\ syncLogs' = [syncLogs EXCEPT ![hoursCalls[h].log] =
                    completeSyncLog(@, StoreSyncResult(Len(scraped)), now)]
  /\ hoursCalls' = [hoursCalls EXCEPT ![h].pc = "reread", ![h].refreshed = TRUE]
  /\ UNCHANGED << now, products, runs, inputVars, serviceVars, ensureVars, searchVars,
                  enrichVars, availVars, scraperVars >>

\* data-sync.ts:170-180: the scrape fails; syncStores() reports it without
\* throwing
HoursScrapeFailed(h) ==
  /\ h \in 1..Len(hoursCalls)
  /\ hoursCalls[h].pc = "refresh"
  /\ syncLogs' = [syncLogs EXCEPT ![hoursCalls[h].log] =
                    failSyncLog(@, ScrapeFailedMessage, now)]
  /\ hoursCalls' = [hoursCalls EXCEPT ![h].pc = "reread", ![h].refreshed = TRUE]
  /\ UNCHANGED << now, products, stores, runs, inputVars, serviceVars, ensureVars, searchVars,
                  enrichVars, availVars, scraperVars >>

\* part_005:413-425, 436-496: the stores are read again and answered
HoursReread(h) ==
  /\ h \in 1..Len(hoursCalls)
  /\ hoursCalls[h].pc = "reread"
  /\ HoursReturn(h, FetchStores(stores, hoursCalls[h].input), TRUE, <<>>)
  /\ UNCHANGED << now, products, stores, syncVars, inputVars, serviceVars, ensureVars, searchVars,
                  enrichVars, availVars, scraperVars >>

\* time passes
ClockTick ==
  /\ now < MaxNow
  /\ now' = now + 1
  /\ UNCHANGED << products, stores, syncVars, inputVars, serviceVars, ensureVars, searchVars, toolVars >>

\* ---------------------------------------------------- RateLimiter, backoff
\* Times of the scraper are counted in ticks of 500 ms.
\* config.ts:20: SCRAPE_RATE_LIMIT_MS defaults to '2000'
ScrapeRateLimit == 4
\* rate-limiter.ts:30: maxJitterMs = 1000; Math.random() * 1000 is below it
MaxJitter == 2
\* rate-limiter.ts:51-53: the defaults of ExponentialBackoff, 2000 and 60000
DefaultBaseMs == 4
DefaultMaxMs == 120
DefaultFactor == 2
\* scraper.ts:127: waitForTimeout(3000) after the entry page
SessionSettle == 6
\* scraper.ts:314: `this.backoff['attempt'] > 3`
FailureThreshold == 3

\* new RateLimiter(minIntervalMs)
RateLimiter(minIntervalMs) == [lastRequestTime |-> 0, minIntervalMs |-> minIntervalMs]

\* variant: the sleep is one tick short of the interval
ThrottleWait_OneShort(limiter, t) ==
  IF t - limiter.lastRequestTime < limiter.minIntervalMs
  THEN limiter.minIntervalMs - (t - limiter.lastRequestTime) - 1
  ELSE 0

\* throttle(): the time to sleep at clock reading t, 0 when none is needed
ThrottleWait(limiter, t) ==
  IF t - limiter.lastRequestTime < limiter.minIntervalMs
  THEN limiter.minIntervalMs - (t - limiter.lastRequestTime)
  ELSE 0

\* throttle(), last line: this.lastRequestTime = Date.now()
ThrottleDone(limiter, t) == [limiter EXCEPT !.lastRequestTime = t]

\* the log keeps the last two completed throttle() calls: when each was
\* invoked and completed, and whether it was invoked after the one before it
\* had completed
LastTwo(log, entry) ==
  IF Len(log) < 2 THEN Append(log, entry) ELSE << log[2], entry >>

\* new ExponentialBackoff(options): a missing (<<>>) or zero option takes the
\* default (`options.baseMs || 2000`)
OptionOr(option, default) ==
  IF option = <<>> \/ option[1] = 0 THEN default ELSE option[1]

\* new ExponentialBackoff(): `options = {}`
NoOptions == [baseMs |-> <<>>, maxMs |-> <<>>, factor |-> <<>>]

ExponentialBackoff(options) ==
  [ attempt |-> 0,
    baseMs |-> OptionOr(options.baseMs, DefaultBaseMs),
    maxMs |-> OptionOr(options.maxMs, DefaultMaxMs),
    factor |-> OptionOr(options.factor, DefaultFactor) ]

\* Math.pow(factor, attempt) on whole numbers
RECURSIVE Pow(_, _)
Pow(x, n) == IF n = 0 THEN 1 ELSE x * Pow(x, n - 1)

\* variant: the delay grows by the factor only from the second retry on
getNextDelay_LateGrowth(b) ==
  Min(b.baseMs * Pow(b.factor, IF b.attempt = 0 THEN 0 ELSE b.attempt - 1), b.maxMs)

\* getNextDelay(): the delay it returns
getNextDelay(b) == Min(b.baseMs * Pow(b.factor, b.attempt), b.maxMs)

\* getNextDelay(): this.attempt++
AfterNextDelay(b) == [b EXCEPT !.attempt = @ + 1]

\* reset()
reset(b) == [b EXCEPT !.attempt = 0]

\* ------------------------------------------------------------- AlkoScraper
\* the public operations that navigate
ScraperKinds == { "availability", "details", "stores", "food" }

\* a slot of the host: no operation, or the operation it runs. wakeAt is the
\* due time of the timer the operation sleeps on, started the clock at its
\* throttle() call, overlapped whether another throttle() call completed
\* while it slept in its own, links the store pages scrapeStores still has to visit,
\* caught whether its catch block ran, waits its backoff waits, skipped the
\* store pages it gave up on, result how it ended
NoOp ==
  [ kind |-> "none", pc |-> "idle", wakeAt |-> 0, started |-> 0, links |-> 0,
    overlapped |-> FALSE, sub |-> FALSE, caught |-> FALSE, sessionFailed |-> FALSE, waits |-> 0,
    skipped |-> 0, result |-> "none" ]

Slots == 1..concurrency

\* the operations that sleep on a timer
Sleeping(s) == ops[s].pc \in { "sessionSettle", "throttleSleep", "jitter", "backoff" }

\* the operations past the return of throttleWithJitter() and not completed
Driving(s) == ops[s].pc \in { "nav", "subNav", "backoff" }

\* a throttle() call completes while the calls of the others sleep
Overlap(o, s) ==
  [x \in DOMAIN o |->
     IF x # s /\ o[x].pc = "throttleSleep" THEN [o[x] EXCEPT !.overlapped = TRUE] ELSE o[x]]

Finish(s, result) ==
  [ops EXCEPT ![s].pc = "done", ![s].result = result, ![s].wakeAt = 0, ![s].started = 0]

\* scraper.ts:166-170: an operation is invoked; it reads sessionEstablished
OpStart(s, kind, links) ==
  /\ s \in Slots
  /\ ops[s].pc \in { "idle", "done" }
  /\ opsStarted < budget
  /\ links > 0 => kind = "stores"
  /\ ops' = [ops EXCEPT ![s] =
       [NoOp EXCEPT !.kind = kind, !.links = links,
                    !.pc = IF sessionEstablished THEN "throttle" ELSE "init"]]
  /\ opsStarted' = opsStarted + 1
  /\ UNCHANGED << now, products, stores, syncVars, inputVars, serviceVars, ensureVars, searchVars,
                  enrichVars, availVars, hoursCalls, limiterVars, backoffVars,
                  sessionEstablished, concurrency, budget, gotoLog, failures >>

\* scraper.ts:49-104: init() returns at once when a browser is set; else it
\* launches the browser, opens a context and opens a page
\* scraper.ts:109-124: after init(), establishSession() reads the flag again
\* and, when it is still unset, navigates to the entry page
EstablishSession(s) ==
  /\ s \in Slots
  /\ ops[s].pc = "init"
  /\ browser' = TRUE
  /\ context' = (browser => context)
  /\ page' = (browser => page)
  /\ IF sessionEstablished
     THEN /\ ops' = [ops EXCEPT ![s].pc = "throttle"]
          /\ gotoLog' = gotoLog
     ELSE /\ ops' = [ops EXCEPT ![s].pc = "sessionNav"]
          /\ gotoLog' = LastTwo(gotoLog, now)
  /\ UNCHANGED << now, products, stores, syncVars, inputVars, vivinoVars, toolCalls, keyLog,
                  ensureVars, searchVars,
                  enrichVars, availVars, hoursCalls, limiterVars, backoffVars,
                  sessionEstablished, concurrency, budget, opsStarted, failures >>

\* scraper.ts:121-127: the entry page loaded; wait for the challenge scripts
SessionLoaded(s) ==
  /\ s \in Slots
  /\ ops[s].pc = "sessionNav"
  /\ ops' = [ops EXCEPT ![s].pc = "sessionSettle", ![s].wakeAt = now + SessionSettle]
  /\ UNCHANGED << now, products, stores, syncVars, inputVars, serviceVars, ensureVars, searchVars,
                  enrichVars, availVars, hoursCalls, limiterVars, backoffVars,
                  sessionEstablished, concurrency, budget, opsStarted, gotoLog, failures >>

\* scraper.ts:146-149: the entry page failed; the error leaves the operation
\* before its try block
SessionFailed(s) ==
  /\ s \in Slots
  /\ ops[s].pc = "sessionNav"
  /\ ops' = [Finish(s, "threw") EXCEPT ![s].sessionFailed = TRUE]
  /\ failures' = [failures EXCEPT !.sinceSuccess = @ + 1]
  /\ UNCHANGED << now, products, stores, syncVars, inputVars, serviceVars, ensureVars, searchVars,
                  enrichVars, availVars, hoursCalls, limiterVars, backoffVars,
                  sessionEstablished, concurrency, budget, opsStarted, gotoLog >>

\* scraper.ts:143-145: the session is established and the backoff reset
SessionReady(s) ==
  /\ s \in Slots
  /\ ops[s].pc = "sessionSettle"
  /\ now >= ops[s].wakeAt
  /\ sessionEstablished' = TRUE
  /\ backoff' = reset(backoff)
  /\ delays' = <<>>
  /\ failures' = [failures EXCEPT !.sinceReset = 0]
  /\ ops' = [ops EXCEPT ![s].pc = "throttle", ![s].wakeAt = 0]
  /\ UNCHANGED << now, products, stores, syncVars, inputVars, serviceVars, ensureVars, searchVars,
                  enrichVars, availVars, hoursCalls, limiterVars, concurrency, budget,
                  opsStarted, gotoLog >>

\* a caller invokes throttle() on the limiter itself
ThrottleCall(s) ==
  /\ s \in Slots
  /\ ops[s].pc \in { "idle", "done" }
  /\ opsStarted < budget
  /\ ops' = [ops EXCEPT ![s] = [NoOp EXCEPT !.kind = "throttle", !.pc = "throttle"]]
  /\ opsStarted' = opsStarted + 1
  /\ UNCHANGED << now, products, stores, syncVars, inputVars, serviceVars, ensureVars, searchVars,
                  enrichVars, availVars, hoursCalls, limiterVars, backoffVars,
                  sessionEstablished, concurrency, budget, gotoLog, failures >>

\* rate-limiter.ts:15-25, 30-33: throttle() reads the clock; without a wait
\* it records the time at once and the jitter sleep begins
ThrottleEnter(s, jitter) ==
  /\ s \in Slots
  /\ ops[s].pc = "throttle"
  /\ IF ThrottleWait(rateLimiter, now) > 0
     THEN /\ ops' = [ops EXCEPT ![s].pc = "throttleSleep", ![s].started = now,
                                ![s].wakeAt = now + ThrottleWait(rateLimiter, now)]
          /\ UNCHANGED limiterVars
     ELSE /\ rateLimiter' = ThrottleDone(rateLimiter, now)
          /\ throttleLog' = LastTwo(throttleLog,
                                    [start |-> now, done |-> now, afterLast |-> TRUE])
          /\ ops' = Overlap([ops EXCEPT ![s].started = now,
                                ![s].pc = IF ops[s].kind = "throttle" THEN "done" ELSE "jitter",
                                ![s].wakeAt = IF ops[s].kind = "throttle" THEN 0 ELSE now + jitter],
                            s)
  /\ UNCHANGED << now, products, stores, syncVars, inputVars, serviceVars, ensureVars, searchVars,
                  enrichVars, availVars, hoursCalls, backoffVars, sessionEstablished,
                  concurrency, budget, opsStarted, gotoLog, failures >>

\* rate-limiter.ts:21-24: the sleep of throttle() is over
ThrottleWake(s, jitter) ==
  /\ s \in Slots
  /\ ops[s].pc = "throttleSleep"
  /\ now >= ops[s].wakeAt
  /\ rateLimiter' = ThrottleDone(rateLimiter, now)
  /\ throttleLog' = LastTwo(throttleLog, [start |-> ops[s].started, done |-> now,
                                          afterLast |-> ~ops[s].overlapped])
  /\ ops' = Overlap([ops EXCEPT ![s].pc = IF ops[s].kind = "throttle" THEN "done" ELSE "jitter",
                                ![s].wakeAt = IF ops[s].kind = "throttle" THEN 0 ELSE now + jitter,
                                ![s].overlapped = FALSE],
                    s)
  /\ UNCHANGED << now, products, stores, syncVars, inputVars, serviceVars, ensureVars, searchVars,
                  enrichVars, availVars, hoursCalls, backoffVars, sessionEstablished,
                  concurrency, budget, opsStarted, gotoLog, failures >>

\* scraper.ts:173-182, 744-745: throttleWithJitter() returned; page.goto()
Navigate(s) ==
  /\ s \in Slots
  /\ ops[s].pc = "jitter"
  /\ now >= ops[s].wakeAt
  /\ gotoLog' = LastTwo(gotoLog, now)
  /\ ops' = [ops EXCEPT ![s].pc = IF ops[s].sub THEN "subNav" ELSE "nav"]
  /\ UNCHANGED << now, products, stores, syncVars, inputVars, serviceVars, ensureVars, searchVars,
                  enrichVars, availVars, hoursCalls, limiterVars, backoffVars,
                  sessionEstablished, concurrency, budget, opsStarted, failures >>

\* the try block ends: this.backoff.reset() and the result is returned
Succeed(s) ==
  /\ backoff' = reset(backoff)
  /\ delays' = <<>>
  /\ failures' = [sinceSuccess |-> 0, sinceReset |-> 0]
  /\ ops' = Finish(s, "returned")

\* scraper.ts:303-306, 465-477, 741-761, 943-946: the page was read. The
\* store listing goes on to its store pages, every other operation ends
PageRead(s) ==
  /\ s \in Slots
  /\ ops[s].pc = "nav"
  /\ IF ops[s].links > 0
     THEN /\ ops' = [ops EXCEPT ![s].pc = "throttle", ![s].sub = TRUE]
          /\ UNCHANGED << backoffVars, failures >>
     ELSE Succeed(s)
  /\ UNCHANGED << now, products, stores, syncVars, inputVars, serviceVars, ensureVars, searchVars,
                  enrichVars, availVars, hoursCalls, limiterVars, sessionEstablished,
                  concurrency, budget, opsStarted, gotoLog >>

\* scraper.ts:307-311, 478-480, 762-764, 947-949: an error in the try block;
\* backoff.wait() takes the next delay and sleeps
PageFailed(s) ==
  /\ s \in Slots
  /\ ops[s].pc = "nav"
  /\ backoff' = AfterNextDelay(backoff)
  /\ delays' = Append(delays, getNextDelay(backoff))
  /\ failures' = [sinceSuccess |-> failures.sinceSuccess + 1,
                  sinceReset |-> failures.sinceReset + 1]
  /\ ops' = [ops EXCEPT ![s].pc = "backoff", ![s].caught = TRUE, ![s].waits = @ + 1,
                        ![s].wakeAt = now + getNextDelay(backoff)]
  /\ UNCHANGED << now, products, stores, syncVars, inputVars, serviceVars, ensureVars, searchVars,
                  enrichVars, availVars, hoursCalls, limiterVars, sessionEstablished,
                  concurrency, budget, opsStarted, gotoLog >>

\* variant: the session is dropped from the third failure on
DropSession_AtThreshold(b) == b.attempt >= FailureThreshold

\* scraper.ts:314-316: `if (this.backoff['attempt'] > 3)`
DropSession(b) == b.attempt > FailureThreshold

\* scraper.ts:318, 486, 770, 955: scrapeProductDetails returns null, the
\* other operations rethrow
OpFailureResult(kind) == IF kind = "details" THEN "null" ELSE "threw"

\* scraper.ts:311-318, 480-486, 764-770, 949-955: the backoff wait is over
BackoffDone(s) ==
  /\ s \in Slots
  /\ ops[s].pc = "backoff"
  /\ now >= ops[s].wakeAt
  /\ sessionEstablished' = IF DropSession(backoff) THEN FALSE ELSE sessionEstablished
  /\ ops' = Finish(s, OpFailureResult(ops[s].kind))
  /\ UNCHANGED << now, products, stores, syncVars, inputVars, serviceVars, ensureVars, searchVars,
                  enrichVars, availVars, hoursCalls, limiterVars, backoffVars,
                  concurrency, budget, opsStarted, gotoLog, failures >>

\* scraper.ts:741-761, 777-881: a store page was read, or failed and was
\* skipped (scrapeIndividualStore returns null); after the last one
\* scrapeStores ends
StorePageDone(s, failed) ==
  /\ s \in Slots
  /\ ops[s].pc = "subNav"
  /\ IF ops[s].links > 1
     THEN /\ ops' = [ops EXCEPT ![s].pc = "throttle", ![s].links = @ - 1,
                                ![s].skipped = IF failed THEN @ + 1 ELSE @]
          /\ UNCHANGED << backoffVars, failures >>
     ELSE /\ backoff' = reset(backoff)
          /\ delays' = <<>>
          /\ failures' = [sinceSuccess |-> 0, sinceReset |-> 0]
          /\ ops' = [Finish(s, "returned") EXCEPT
                       ![s].links = 0, ![s].skipped = IF failed THEN @ + 1 ELSE @]
  /\ UNCHANGED << now, products, stores, syncVars, inputVars, serviceVars, ensureVars, searchVars,
                  enrichVars, availVars, hoursCalls, limiterVars, sessionEstablished,
                  concurrency, budget, opsStarted, gotoLog >>

\* the due times of the timers not yet due
PendingTimers == { ops[s].wakeAt : s \in { x \in Slots : Sleeping(x) /\ ops[x].wakeAt > now } }

\* the clock reaches the next timer
TimerAdvance ==
  /\ PendingTimers # {}
  /\ now' = CHOOSE t \in PendingTimers : \A u \in PendingTimers : t <= u
  /\ UNCHANGED << products, stores, syncVars, inputVars, serviceVars, ensureVars, searchVars, toolVars >>

\* time passes between calls, as long as the limiter can tell the difference
TimePasses ==
  /\ now - rateLimiter.lastRequestTime < rateLimiter.minIntervalMs
  /\ now' = now + 1
  /\ UNCHANGED << products, stores, syncVars, inputVars, serviceVars, ensureVars, searchVars, toolVars >>

\* getNextDelay() called on the backoff itself
BackoffNextDelay ==
  /\ Len(delays) < MaxDelays
  /\ backoff' = AfterNextDelay(backoff)
  /\ delays' = Append(delays, getNextDelay(backoff))
  /\ UNCHANGED << now, products, stores, syncVars, inputVars, serviceVars, ensureVars, searchVars,
                  enrichVars, availVars, hoursCalls, limiterVars, sessionEstablished,
                  concurrency, budget, ops, opsStarted, gotoLog, failures >>

\* reset() called on the backoff itself
BackoffReset ==
  /\ Len(delays) > 0
  /\ backoff' = reset(backoff)
  /\ delays' = <<>>
  /\ UNCHANGED << now, products, stores, syncVars, inputVars, serviceVars, ensureVars, searchVars,
                  enrichVars, availVars, hoursCalls, limiterVars, sessionEstablished,
                  concurrency, budget, ops, opsStarted, gotoLog, failures >>

\* ------------------------------------------------------------ specification
\* vivino-scraper.ts:24
VivinoRateLimit == 6

\* vivino-scraper.ts:22-32: new VivinoScraper(), no browser yet
VivinoScraper ==
  [ browser |-> FALSE,
    rateLimiter |-> RateLimiter(VivinoRateLimit),
    backoff |-> ExponentialBackoff(NoOptions) ]

\* no tool call has been made and the scraper's caches are empty
CachesEmpty ==
  /\ gets = <<>>
  /\ productCache = <<>>
  /\ scrapes = <<>>
  /\ availCache = <<>>
  /\ availability = <<>>
  /\ availCalls = <<>>
  /\ hoursCalls = <<>>
  /\ searchCache = <<>>
  /\ searchOut = <<>>
  /\ browser = FALSE
  /\ context = FALSE
  /\ page = FALSE
  /\ vivinoRatings = <<>>
  /\ memoryCache = <<>>
  /\ vivinoScraper = VivinoScraper
  /\ ratingCalls = <<>>
  /\ toolCalls = <<>>
  /\ keyLog = <<>>

\* ... and no price list has been requested
CallsIdle ==
  /\ CachesEmpty
  /\ response = NoResponse
  /\ download = <<>>

\* a scraper that has done nothing yet
ScraperAtRest ==
  /\ sessionEstablished = FALSE
  /\ ops = [s \in 1..concurrency |-> NoOp]
  /\ opsStarted = 0
  /\ throttleLog = <<>>
  /\ gotoLog = <<>>
  /\ failures = [sinceSuccess |-> 0, sinceReset |-> 0]
  /\ delays = <<>>

ToolsIdle ==
  /\ CallsIdle
  /\ rateLimiter = RateLimiter(ScrapeRateLimit)
  /\ backoff = ExponentialBackoff(NoOptions)
  /\ concurrency = 1
  /\ budget = 0
  /\ ScraperAtRest

Init ==
  /\ now = 0
  /\ products = <<>>
  /\ stores = <<>>
  /\ syncLogs = <<>>
  /\ sheet \in Sheets
  /\ seed \in Seeds
  /\ seedDataChecked = FALSE
  /\ seedDataLoading = 0
  /\ loaders = <<>>
  /\ callerPc = [c \in Callers |-> "idle"]
  /\ callerAwait = [c \in Callers |-> 0]
  /\ runs = <<>>
  /\ storeChecks = 0
  /\ seedLoads = 0
  /\ searchReq = NoRequest
  /\ searchRes = NoSearchResult
  /\ ToolsIdle

Next ==
  \/ \E c \in Callers : CallFast(c)
  \/ \E c \in Callers : CallJoin(c)
  \/ \E c \in Callers : CallStart(c)
  \/ \E a \in 1..NCallers : LoaderCountSkip(a)
  \/ \E a \in 1..NCallers : LoaderCountLoad(a)
  \/ \E a \in 1..NCallers : LoaderGet(a)
  \/ \E a \in 1..NCallers : LoaderCommit(a)
  \/ \E a \in 1..NCallers : LoaderStore(a)
  \/ \E a \in 1..NCallers : LoaderThrow(a)
  \/ SyncStart
  \/ \E r \in 1..MaxRuns : SyncDownloadFail(r)
  \/ \E r \in 1..MaxRuns : SyncParseFail(r)
  \/ \E r \in 1..MaxRuns : SyncDownload(r)
  \/ \E r \in 1..MaxRuns : SyncGet(r)
  \/ \E r \in 1..MaxRuns : SyncCommit(r)
  \/ \E r \in 1..MaxRuns : SyncUpsertThrow(r)

Spec == Init /\ [][Next]_vars

\* The search is a function of the catalog and the request: it is checked
\* over every catalog drawn from the pool.
SearchInit ==
  /\ now = 0
  /\ products \in { CatalogOf(docs) : docs \in SUBSET CatalogPool }
  /\ stores = <<>>
  /\ syncLogs = <<>>
  /\ sheet = <<HeaderRow, BlankRow>>
  /\ seed = [present |-> FALSE, products |-> <<>>, stores |-> <<>>]
  /\ seedDataChecked = FALSE
  /\ seedDataLoading = 0
  /\ loaders = <<>>
  /\ callerPc = [c \in Callers |-> "idle"]
  /\ callerAwait = [c \in Callers |-> 0]
  /\ runs = <<>>
  /\ storeChecks = 0
  /\ seedLoads = 0
  /\ searchReq = NoRequest
  /\ searchRes = NoSearchResult
  /\ ToolsIdle

\* searchProducts reads the catalog and writes nothing, so one call per
\* catalog covers every call
Search(req) ==
  /\ searchReq = NoRequest
  /\ searchReq' = req
  /\ searchRes' = searchProducts(products, req, req)
  /\ UNCHANGED << searchCache, searchOut >>
  /\ UNCHANGED << now, products, stores, syncVars, inputVars, serviceVars, ensureVars, toolVars >>

\* structured-only query
SearchStructured == \E req \in Requests : ~HasQuery(req) /\ Search(req)

\* free-text query
SearchText == \E req \in Requests : HasQuery(req) /\ Search(req)

SearchNext == SearchStructured \/ SearchText

SearchSpec == SearchInit /\ [][SearchNext]_vars

\* The ranking of a text search, over every catalog of at most MaxCatalog
\* documents of the ranking pool.
RankInit ==
  /\ now = 0
  /\ products \in { CatalogOf(docs) :
                     docs \in { d \in SUBSET RankPool : Cardinality(d) <= MaxCatalog } }
  /\ stores = <<>>
  /\ syncLogs = <<>>
  /\ sheet = <<HeaderRow, BlankRow>>
  /\ seed = [present |-> FALSE, products |-> <<>>, stores |-> <<>>]
  /\ seedDataChecked = FALSE
  /\ seedDataLoading = 0
  /\ loaders = <<>>
  /\ callerPc = [c \in Callers |-> "idle"]
  /\ callerAwait = [c \in Callers |-> 0]
  /\ runs = <<>>
  /\ storeChecks = 0
  /\ seedLoads = 0
  /\ searchReq = NoRequest
  /\ searchRes = NoSearchResult
  /\ ToolsIdle

\* a text search whose page holds every match
RankSearch == \E req \in RankRequests : Search(req)

RankNext == RankSearch

RankSpec == RankInit /\ [][RankNext]_vars

\* getProduct calls, overlapping each other and syncs of a one-row price
\* list, against a store that holds the product of that row
EnrichedCatalog ==
  LET base == excelRowToProduct(rowToAlkoExcelRow(Row1)[1], 0)
  IN { base,
       MergeFields(base, enrichedFields(EnrichedData(<<NameAb>>, <<>>, Null, <<>>))),
       MergeFields(base, enrichedFields(EnrichedData(<<>>, <<>>, 0, <<>>))) }

EnrichInit ==
  /\ now = 1
  /\ products \in { CatalogOf({d}) : d \in EnrichedCatalog }
  /\ stores = <<>>
  /\ syncLogs = <<>>
  /\ sheet = <<HeaderRow, Row1>>
  /\ seed = [present |-> FALSE, products |-> <<>>, stores |-> <<>>]
  /\ seedDataChecked = TRUE
  /\ seedDataLoading = 0
  /\ loaders = <<>>
  /\ callerPc = [c \in Callers |-> "idle"]
  /\ callerAwait = [c \in Callers |-> 0]
  /\ runs = <<>>
  /\ storeChecks = 0
  /\ seedLoads = 0
  /\ searchReq = NoRequest
  /\ searchRes = NoSearchResult
  /\ ToolsIdle

EnrichNext ==
  \/ \E id \in GetIds : GetCacheHit(id)
  \/ \E id \in GetIds, inc \in BOOLEAN : GetQuery(id, inc)
  \/ \E g \in 1..MaxGets : GetNotFound(g)
  \/ \E g \in 1..MaxGets : GetStored(g)
  \/ \E g \in 1..MaxGets : GetScrape(g)
  \/ \E g \in 1..MaxGets : GetScrapeFailed(g)
  \/ \E g \in 1..MaxGets, outcome \in ScrapeOutcomes : GetScraped(g, outcome)
  \/ \E g \in 1..MaxGets : GetPersisted(g)
  \/ \E g \in 1..MaxGets : GetPersistFailed(g)
  \/ SyncStart
  \/ \E r \in 1..MaxRuns : SyncDownload(r)
  \/ \E r \in 1..MaxRuns : SyncGet(r)
  \/ \E r \in 1..MaxRuns : SyncCommit(r)

EnrichSpec == EnrichInit /\ [][EnrichNext]_vars

\* getAvailability calls against a loaded catalog, with empty caches and
\* an empty availability collection at the start
AvailInit ==
  /\ now = 1
  /\ products \in { CatalogOf({d}) : d \in EnrichedCatalog }
  /\ stores = <<>>
  /\ syncLogs = <<>>
  /\ sheet = <<HeaderRow, Row1>>
  /\ seed = [present |-> FALSE, products |-> <<>>, stores |-> <<>>]
  /\ seedDataChecked = TRUE
  /\ seedDataLoading = 0
  /\ loaders = <<>>
  /\ callerPc = [c \in Callers |-> "idle"]
  /\ callerAwait = [c \in Callers |-> 0]
  /\ runs = <<>>
  /\ storeChecks = 0
  /\ seedLoads = 0
  /\ searchReq = NoRequest
  /\ searchRes = NoSearchResult
  /\ ToolsIdle

AvailNext ==
  \/ \E id \in AvailIds, force \in BOOLEAN : AvailStart(id, force)
  \/ \E c \in 1..MaxAvailCalls : AvailCached(c)
  \/ \E c \in 1..MaxAvailCalls : AvailCacheMiss(c)
  \/ \E c \in 1..MaxAvailCalls : AvailScraperCacheHit(c)
  \/ \E c \in 1..MaxAvailCalls : AvailSiteFailed(c)
  \/ \E c \in 1..MaxAvailCalls, stock \in SiteStock : AvailExtracted(c, stock)
  \/ \E c \in 1..MaxAvailCalls : AvailPersisted(c)
  \/ \E c \in 1..MaxAvailCalls : AvailPersistFailed(c)
  \/ \E c \in 1..MaxAvailCalls : AvailFallback(c)
  \/ \E id \in AvailIds : AvailCacheExpire(id)

AvailSpec == AvailInit /\ [][AvailNext]_vars

\* getStoreHours calls as days pass, against stores captured on day 0
HoursInit ==
  /\ now = 0
  /\ products = <<>>
  /\ stores \in { SaveStores(<<>>, list, 0) : list \in { <<>>, <<Outlet1>>, <<Outlet1, Outlet2>> } }
  /\ syncLogs = <<>>
  /\ sheet = <<HeaderRow, BlankRow>>
  /\ seed = [present |-> FALSE, products |-> <<>>, stores |-> <<>>]
  /\ seedDataChecked = TRUE
  /\ seedDataLoading = 0
  /\ loaders = <<>>
  /\ callerPc = [c \in Callers |-> "idle"]
  /\ callerAwait = [c \in Callers |-> 0]
  /\ runs = <<>>
  /\ storeChecks = 0
  /\ seedLoads = 0
  /\ searchReq = NoRequest
  /\ searchRes = NoSearchResult
  /\ ToolsIdle

HoursNext ==
  \/ \E input \in HoursInputs : HoursStart(input)
  \/ \E h \in 1..MaxHoursCalls : HoursFresh(h)
  \/ \E h \in 1..MaxHoursCalls : HoursStale(h)
  \/ \E h \in 1..MaxHoursCalls : HoursRefreshThrew(h)
  \/ \E h \in 1..MaxHoursCalls, scraped \in SiteOutlets : HoursScraped(h, scraped)
  \/ \E h \in 1..MaxHoursCalls : HoursScrapeFailed(h)
  \/ \E h \in 1..MaxHoursCalls : HoursReread(h)
  \/ ClockTick

HoursSpec == HoursInit /\ [][HoursNext]_vars

\* the catalog side at rest: an empty store whose bootstrap is over
DataIdle ==
  /\ products = <<>>
  /\ stores = <<>>
  /\ syncLogs = <<>>
  /\ sheet = <<HeaderRow, BlankRow>>
  /\ seed = [present |-> FALSE, products |-> <<>>, stores |-> <<>>]
  /\ seedDataChecked = TRUE
  /\ seedDataLoading = 0
  /\ loaders = <<>>
  /\ callerPc = [c \in Callers |-> "idle"]
  /\ callerAwait = [c \in Callers |-> 0]
  /\ runs = <<>>
  /\ storeChecks = 0
  /\ seedLoads = 0
  /\ searchReq = NoRequest
  /\ searchRes = NoSearchResult

\* throttle() calls on one limiter, one after another or overlapping; the
\* clock is far from zero, as Date.now() is
LimiterIntervals == { 2, ScrapeRateLimit }

LimiterInit ==
  /\ rateLimiter \in { RateLimiter(m) : m \in LimiterIntervals }
  /\ now = rateLimiter.minIntervalMs
  /\ backoff = ExponentialBackoff(NoOptions)
  /\ concurrency \in 1..MaxInFlight
  /\ budget = MaxThrottles
  /\ DataIdle /\ CallsIdle /\ ScraperAtRest

LimiterNext ==
  \/ \E s \in 1..MaxInFlight : ThrottleCall(s)
  \/ \E s \in 1..MaxInFlight : ThrottleEnter(s, 0)
  \/ \E s \in 1..MaxInFlight : ThrottleWake(s, 0)
  \/ TimerAdvance
  \/ TimePasses

LimiterSpec == LimiterInit /\ [][LimiterNext]_vars

\* getNextDelay() and reset() on a backoff built with any of these options
BackoffOptions ==
  [ baseMs : { <<>>, <<0>>, <<2>>, <<20>> }, maxMs : { <<>>, <<16>>, <<60>> },
    factor : { <<>>, <<2>>, <<3>>, <<4>> } ]

BackoffInit ==
  /\ now = 0
  /\ rateLimiter = RateLimiter(ScrapeRateLimit)
  /\ backoff \in { ExponentialBackoff(o) : o \in BackoffOptions }
  /\ concurrency = 1
  /\ budget = 0
  /\ DataIdle /\ CallsIdle /\ ScraperAtRest

BackoffNext == BackoffNextDelay \/ BackoffReset

BackoffSpec == BackoffInit /\ [][BackoffNext]_vars

\* scraper operations as the host invokes them
ScrapeInit ==
  /\ now = ScrapeRateLimit
  /\ rateLimiter = RateLimiter(ScrapeRateLimit)
  /\ backoff = ExponentialBackoff(NoOptions)
  /\ concurrency = MaxInFlight
  /\ budget = MaxScrapes
  /\ DataIdle /\ CallsIdle /\ ScraperAtRest

ScrapeNext ==
  \/ \E s \in 1..MaxInFlight, kind \in ScraperKinds, links \in 0..1 : OpStart(s, kind, links)
  \/ \E s \in 1..MaxInFlight : EstablishSession(s)
  \/ \E s \in 1..MaxInFlight : SessionLoaded(s)
  \/ \E s \in 1..MaxInFlight : SessionFailed(s)
  \/ \E s \in 1..MaxInFlight : SessionReady(s)
  \/ \E s \in 1..MaxInFlight, jitter \in 0..(MaxJitter - 1) : ThrottleEnter(s, jitter)
  \/ \E s \in 1..MaxInFlight, jitter \in 0..(MaxJitter - 1) : ThrottleWake(s, jitter)
  \/ \E s \in 1..MaxInFlight : Navigate(s)
  \/ \E s \in 1..MaxInFlight : PageRead(s)
  \/ \E s \in 1..MaxInFlight : PageFailed(s)
  \/ \E s \in 1..MaxInFlight : BackoffDone(s)
  \/ \E s \in 1..MaxInFlight, failed \in BOOLEAN : StorePageDone(s, failed)
  \/ TimerAdvance

ScrapeSpec == ScrapeInit /\ [][ScrapeNext]_vars

\* the same operations invoked one after another, long enough for the
\* failures to pass the threshold
SessionInit ==
  /\ now = ScrapeRateLimit
  /\ rateLimiter = RateLimiter(ScrapeRateLimit)
  /\ backoff = ExponentialBackoff(NoOptions)
  /\ concurrency = 1
  /\ budget = MaxSessionOps
  /\ DataIdle /\ CallsIdle /\ ScraperAtRest

SessionSpec == SessionInit /\ [][ScrapeNext]_vars

TypeOK ==
  /\ seedDataLoading \in 0..NCallers
  /\ Len(runs) = Len(syncLogs)

\* ------------------------------------------------------------------ claims
Settled(a) == loaders[a].pc \in {"fulfilled", "rejected"}
NonEmptySeed == seed.present /\ ~SeedIsEmpty

\* C1: ensureData() called N times against an empty store with a non-empty
\* seed bundle loads the bundle exactly once: at most one attempt is ever
\* started, a caller arriving during the load awaits that same attempt, and
\* every caller of a settled attempt has observed its completion.
C1_SingleFlightLoad ==
  /\ seedLoads <= 1
  /\ Len(loaders) <= 1
  /\ \A a \in 1..Len(loaders) :
       (loaders[a].count = 0 /\ NonEmptySeed) => seedLoads = 1
  /\ \A c \in Callers :
       callerPc[c] = "awaiting" =>
         /\ seedDataLoading # 0
         /\ callerAwait[c] = seedDataLoading
         /\ LoaderActive(seedDataLoading)
  /\ \A c \in Callers :
       (callerAwait[c] # 0 /\ Settled(callerAwait[c])) =>
         callerPc[c] \in {"returned", "threw"}

\* C1 witness: all callers joined the one attempt, which loaded the seed
C1_Witness ==
  /\ NonEmptySeed
  /\ seedLoads = 1
  /\ \A c \in Callers : callerAwait[c] = 1 /\ callerPc[c] = "returned"
  /\ loaders[1].count = 0
  /\ DOMAIN products # {}

\* C2: once the first attempt has finished, successfully or not, the status
\* is checked and no step starts another store check or seed load.
C2_NoRetryAfterFirstAttempt ==
  [][(\E a \in 1..Len(loaders) : Settled(a)) =>
       /\ seedDataChecked /\ seedDataChecked'
       /\ storeChecks' = storeChecks
       /\ seedLoads' = seedLoads
       /\ loaders' = loaders]_vars

\* C2 witness: the attempt failed and a later call took the fast path
C2_Witness ==
  /\ Len(loaders) = 1 /\ loaders[1].pc = "rejected"
  /\ storeChecks = 1
  /\ \E c \in Callers : callerPc[c] = "returned" /\ callerAwait[c] = 0
  /\ \E c \in Callers : callerPc[c] = "threw"

\* the products a sync of the published sheet validates as good
SheetValid == ValidProducts(parseAlkoExcel(sheet, 0).products)

\* C3: a run started after an earlier run of the same sheet had completed
\* reports added = 0 and counts every valid item as updated.
C3_SecondRunAllUpdated ==
  \A r \in RunIds :
    (runs[r].pc = "done" /\ runs[r].result.success /\ runs[r].afterCompleted) =>
      /\ runs[r].result.productsAdded = 0
      /\ runs[r].result.productsUpdated = Len(SheetValid)
      /\ syncLogs[r].productsAdded = 0
      /\ syncLogs[r].productsUpdated = Len(SheetValid)

\* C3 witness: the second of two completed runs rewrote three items
C3_Witness ==
  /\ Len(runs) = 2
  /\ syncLogs[1].status = "completed" /\ syncLogs[2].status = "completed"
  /\ runs[2].afterCompleted
  /\ runs[2].result.productsUpdated = 3

\* C4: a creation timestamp never changes once the document exists, and a
\* rewrite never moves the update timestamp back.
C4_CreatedAtImmutable ==
  [][\A id \in DOMAIN products :
       /\ id \in DOMAIN products'
       /\ products'[id].createdAt = products[id].createdAt
       /\ products'[id].updatedAt >= products[id].updatedAt]_vars

FailedByWrite(r) ==
  /\ runs[r].pc = "done"
  /\ runs[r].result.errors = << <<WriteFailedMessage>> >>

ThrownMessages == {DownloadFailedMessage, NoHeaderMessage, WriteFailedMessage}

\* C6: a run in which a step threw is sealed as failed with exactly the
\* thrown message as its error list, and returns success = false with the
\* same message; no other run is sealed as failed.
C6_ThrowSealsFailed ==
  \A r \in RunIds :
    /\ runs[r].pc = "done" => syncLogs[r].status \in {"completed", "failed"}
    /\ runs[r].pc # "done" => syncLogs[r].status = "started"
    /\ (runs[r].pc = "done" /\ ~runs[r].result.success) =>
         /\ syncLogs[r].status = "failed"
         /\ Len(syncLogs[r].errors) = 1
         /\ syncLogs[r].errors = runs[r].result.errors
         /\ \E m \in ThrownMessages : syncLogs[r].errors = << <<m>> >>
    /\ syncLogs[r].status = "failed" => (runs[r].pc = "done" /\ ~runs[r].result.success)

\* C6 witness: one run failed in the download, the next in the parse
C6_Witness ==
  /\ Len(runs) = 2
  /\ syncLogs[1].status = "failed" /\ syncLogs[2].status = "failed"
  /\ syncLogs[1].errors = << <<DownloadFailedMessage>> >>
  /\ syncLogs[2].errors = << <<NoHeaderMessage>> >>

\* a parsed row fails validation
FailsValidation(p) ==
  \/ p.id = <<>>
  \/ p.name = <<>>
  \/ p.price < 0
  \/ p.alcoholPercentage < 0
  \/ p.alcoholPercentage > 100

SheetParsed == parseAlkoExcel(sheet, 0).products
SheetInvalidIds ==
  LET bad == SelectSeq(SheetParsed, FailsValidation) IN [i \in 1..Len(bad) |-> bad[i].id]
SheetValidIds ==
  { SheetParsed[i].id : i \in { j \in 1..Len(SheetParsed) : ~FailsValidation(SheetParsed[j]) } }

\* C7: a row failing validation is never handed to the upsert nor stored;
\* a run that completes lists one error entry per invalid row, in row
\* order, and has upserted every valid row.
C7_InvalidRowsExcluded ==
  /\ \A id \in DOMAIN products : ~FailsValidation(products[id])
  /\ \A r \in RunIds :
       /\ \A i \in 1..Len(runs[r].up.ps) : ~FailsValidation(runs[r].up.ps[i])
       /\ \A i \in 1..Len(runs[r].up.batch) : ~FailsValidation(runs[r].up.batch[i])
       /\ syncLogs[r].status = "completed" =>
            /\ [i \in 1..Len(syncLogs[r].errors) |-> syncLogs[r].errors[i][2]] = SheetInvalidIds
            /\ \A i \in 1..Len(syncLogs[r].errors) : syncLogs[r].errors[i][1] = "Product"
            /\ syncLogs[r].productsProcessed
                 = Len(SheetParsed) - Len(SheetInvalidIds)
            /\ runs[r].written = syncLogs[r].productsProcessed
            /\ SheetValidIds \subseteq DOMAIN products

\* C7 witness: a run with three invalid rows completed and stored the two
\* valid ones
C7_Witness ==
  \E r \in RunIds :
    /\ syncLogs[r].status = "completed"
    /\ Len(syncLogs[r].errors) = 3
    /\ syncLogs[r].productsProcessed = 2
    /\ SheetValidIds \subseteq DOMAIN products

\* no row of the sheet carries the marker in its first column
NoHeaderRow == \A i \in 1..Len(sheet) : CellAt(sheet[i], COL_NUMERO) # <<Numero>>

\* C8: with no header row a sync never reaches the upsert, writes nothing
\* and is sealed as failed.
C8_NoHeaderAborts ==
  NoHeaderRow =>
    \A r \in RunIds :
      /\ runs[r].pc # "upsert"
      /\ runs[r].written = 0
      /\ runs[r].pc = "done" =>
           /\ syncLogs[r].status = "failed"
           /\ ~runs[r].result.success

\* C8 witness: the parse of a sheet with data rows but no header threw
C8_Witness ==
  /\ NoHeaderRow
  /\ Len(sheet) > 1
  /\ \E r \in RunIds :
       /\ runs[r].pc = "done"
       /\ syncLogs[r].errors = << <<NoHeaderMessage>> >>
       /\ runs[r].written = 0

\* every filter of the request, store-side and client-side
PassesFilters(p, f) ==
  /\ StoreFilter(p, f)
  /\ f.minSmokiness # <<>> => (p.smokiness # Null /\ p.smokiness >= f.minSmokiness[1])
  /\ f.maxSmokiness # <<>> => (p.smokiness # Null /\ p.smokiness <= f.maxSmokiness[1])

AllDocs == { products[id] : id \in DOMAIN products }

\* the matches of a structured request, in the store's order
StructuredMatches(f) ==
  SelectSeq(StoreOrdered({ p \in AllDocs : StoreFilter(p, f) }, f.sortBy, f.sortOrder),
            LAMBDA p : PassesFilters(p, f))

\* C9: a structured-only request returns elements [O, O+L) of the matches in
\* the store's order, total = T and hasMore = (T > O + L).
C9_StructuredPage ==
  (searchReq.limit > 0 /\ ~HasQuery(searchReq)) =>
    LET m == StructuredMatches(searchReq) IN
    /\ searchRes.products = Slice(m, searchReq.offset, searchReq.offset + searchReq.limit)
    /\ searchRes.total = Len(m)
    /\ searchRes.hasMore = (Len(m) > searchReq.offset + searchReq.limit)

\* the matches of a free-text request
TextMatches(f) ==
  { p \in AllDocs :
      /\ PassesFilters(p, f)
      /\ EveryWordIn(QueryWords(ToLowerCase(f.query[1])), SearchableText(p)) }

\* C10: a free-text request returns elements [O, O+L) of the matches ordered
\* by score descending then name, total = T and hasMore = (T > O + L); with
\* 57 matches and limit 20, offset 40 gives 17 items and no more, offset 20
\* gives 20 items and more.
C10_TextPage ==
  /\ (searchReq.limit > 0 /\ HasQuery(searchReq)) =>
       LET f == searchReq
           ql == ToLowerCase(f.query[1])
           words == QueryWords(ql)
           M == TextMatches(f)
           T == Cardinality(M)
           shown == searchRes.products
           Before(x) == { m \in M : RelevanceCompare(m, x, ql, words) < 0 }
           NotAfter(x) == { m \in M : RelevanceCompare(m, x, ql, words) <= 0 }
       IN /\ searchRes.total = T
          /\ searchRes.hasMore = (T > f.offset + f.limit)
          /\ Len(shown) = Max(0, Min(f.limit, T - f.offset))
          /\ \A k \in 1..Len(shown) :
               /\ shown[k] \in M
               /\ \A j \in 1..(k - 1) : shown[j] # shown[k]
               /\ Cardinality(Before(shown[k])) <= f.offset + k - 1
               /\ Cardinality(NotAfter(shown[k])) >= f.offset + k
  /\ LET all == [i \in 1..57 |-> i] IN
       /\ Len(Paginate(all, 40, 20).products) = 17
       /\ ~Paginate(all, 40, 20).hasMore
       /\ Paginate(all, 40, 20).total = 57
       /\ Len(Paginate(all, 20, 20).products) = 20
       /\ Paginate(all, 20, 20).hasMore

\* C10 witness: a middle page of a text search with more to come
C10_Witness ==
  /\ HasQuery(searchReq)
  /\ searchReq.offset = 1 /\ searchReq.limit = 2
  /\ searchRes.total = 4
  /\ Len(searchRes.products) = 2
  /\ searchRes.hasMore

\* ------------------------------------------------------- ranking claims
TextSearched == HasQuery(searchReq)
RankQueryLower == ToLowerCase(searchReq.query[1])
RankWords == QueryWords(RankQueryLower)
ScoreOf(p) == calculateRelevanceScore(p, RankQueryLower, RankWords)
Ranked == searchRes.products
\* the query equals the item's name, case-folded
NamedByQuery(p) == ToLowerCase(p.name) = RankQueryLower
NameHasWords(p) == EveryWordIn(RankWords, ToLowerCase(p.name))
NameHasPhrase(p) == Includes(ToLowerCase(p.name), RankQueryLower)

\* C11 as stated: an item whose name equals the query (case-folded) scores
\* 100 and ranks first among all matches: nothing but another item of that
\* very name is ranked before it.
C11_ExactNameFirst ==
  TextSearched =>
    \A p \in AllDocs :
      NamedByQuery(p) =>
        /\ ScoreOf(p) = 100
        /\ \E k \in 1..Len(Ranked) :
             /\ Ranked[k] = p
             /\ \A j \in 1..(k - 1) : NamedByQuery(Ranked[j])

\* C11 amended: an item whose name equals the query (case-folded) scores 100,
\* the highest score, and is in the result; every item ranked before it also
\* scores 100 (its name contains the query) and has a name that does not sort
\* after the item's name.
C11_ExactNameTopGroup ==
  TextSearched =>
    /\ \A k \in 1..Len(Ranked) : ScoreOf(Ranked[k]) <= 100
    /\ \A p \in AllDocs :
         NamedByQuery(p) =>
           /\ ScoreOf(p) = 100
           /\ \E k \in 1..Len(Ranked) :
                /\ Ranked[k] = p
                /\ \A j \in 1..(k - 1) :
                     /\ ScoreOf(Ranked[j]) = 100
                     /\ NameHasPhrase(Ranked[j])
                     /\ LocaleCompare(Ranked[j].name, p.name) <= 0

\* C11 witness: the item named by the query is ranked second, behind an item
\* with a longer name that contains the query
C11_Witness ==
  /\ TextSearched
  /\ Len(Ranked) >= 2
  /\ NamedByQuery(Ranked[2])
  /\ ~NamedByQuery(Ranked[1])
  /\ ScoreOf(Ranked[1]) = 100

\* the score of the first matching rule of the documented priority order
FirstRuleScore(p) ==
  LET nameLower == ToLowerCase(p.name)
      producerLower == ToLowerCase(p.producer)
      others == OtherFields(p)
  IN IF Includes(nameLower, RankQueryLower) THEN 100
     ELSE IF EveryWordIn(RankWords, nameLower) THEN 80
     ELSE IF Includes(producerLower, RankQueryLower) THEN 60
     ELSE IF EveryWordIn(RankWords, producerLower) THEN 50
     ELSE IF \E i \in 1..Len(others) : Includes(others[i], RankQueryLower) THEN 40
     ELSE IF \E i \in 1..Len(others) : EveryWordIn(RankWords, others[i]) THEN 30
     ELSE 20

\* C12: every ranked candidate has the score of the first matching rule in
\* the order 100, 80, 60, 50, 40, 30, 20: the exact phrase in any one other
\* field gives 40 whichever field it is, and 30 is given only when no other
\* field contains the exact phrase.
C12_FirstMatchingRule ==
  TextSearched =>
    \A k \in 1..Len(Ranked) : ScoreOf(Ranked[k]) = FirstRuleScore(Ranked[k])

\* C13: an item whose name contains every query word, but not the phrase,
\* scores 80 and is ranked before every match whose name does not contain
\* every query word.
C13_NameWordsAboveOthers ==
  TextSearched =>
    \A k \in 1..Len(Ranked) :
      (NameHasWords(Ranked[k]) /\ ~NameHasPhrase(Ranked[k])) =>
        /\ ScoreOf(Ranked[k]) = 80
        /\ \A j \in 1..Len(Ranked) :
             ~NameHasWords(Ranked[j]) =>
               /\ k < j
               /\ ScoreOf(Ranked[j]) < 80

\* C13 witness: the item with the words in its name in another order comes
\* first, before a producer match and a match in another field
C13_Witness ==
  /\ TextSearched
  /\ Len(Ranked) = 3
  /\ NameHasWords(Ranked[1]) /\ ~NameHasPhrase(Ranked[1])
  /\ ScoreOf(Ranked[2]) \in {50, 60}
  /\ ScoreOf(Ranked[3]) \in {20, 30, 40}

\* C14: the result of a text search is ordered by score descending, then by
\* name ascending, and is the same whatever the order in which the store
\* returned the documents (whatever sortBy and sortOrder the store applied).
C14_DeterministicOrder ==
  TextSearched =>
    /\ \A k \in 1..(Len(Ranked) - 1) :
         \/ ScoreOf(Ranked[k]) > ScoreOf(Ranked[k + 1])
         \/ /\ ScoreOf(Ranked[k]) = ScoreOf(Ranked[k + 1])
            /\ LocaleCompare(Ranked[k].name, Ranked[k + 1].name) <= 0
    /\ \A sb \in {"name", "price"}, so \in {"asc", "desc"} :
         LET other == [searchReq EXCEPT !.sortBy = sb, !.sortOrder = so]
         IN searchProducts(products, other, other) = searchRes

\* ---------------------------------------------------- enrichment claims
\* some enrichment field of the product holds a value
AnyEnrichmentPopulated(product) ==
  \/ product.tasteProfile # <<>> /\ product.tasteProfile[1] # <<>>
  \/ product.foodPairings # <<>> /\ product.foodPairings[1] # <<>>
  \/ product.smokiness # Null
  \/ product.smokinessLabel # <<>> /\ product.smokinessLabel[1] # <<>>

\* C15: a request for enriched data of an item that already has an
\* enrichment field populated neither invokes the scraper nor writes
\* enrichment fields.
C15_EnrichedNotScrapedAgain ==
  \A g \in 1..Len(gets) :
    (gets[g].includeEnrichedData /\ gets[g].read # <<>>
       /\ AnyEnrichmentPopulated(gets[g].read[1])) =>
      /\ ~gets[g].scraped
      /\ ~gets[g].wrote
      /\ gets[g].pc = "done"
      /\ gets[g].result = gets[g].read

\* C15 witness: enriched data was asked for an item whose only populated
\* enrichment field is a smokiness of 0, after an earlier call scraped it
C15_Witness ==
  \E g \in 1..Len(gets) :
    /\ gets[g].includeEnrichedData
    /\ gets[g].pc = "done"
    /\ gets[g].read # <<>>
    /\ gets[g].read[1].smokiness = 0
    /\ gets[g].read[1].tasteProfile = <<>>
    /\ ~gets[g].scraped
    /\ \E h \in 1..(g - 1) : gets[h].wrote

\* C16: over any sequence of enrichment requests the scraper is invoked at
\* most once per item.
C16_ScrapedAtMostOnce ==
  \A id \in DOMAIN scrapes : scrapes[id] <= 1

\* -------------------------------------------------- availability claims
\* the records stored for the product of call c
PersistedFor(c) == getAvailabilityRecords(availability, availCalls[c].productId)
AvailDone(c) == availCalls[c].pc = "done"
AvailResult(c) == availCalls[c].result[1]

\* C17: when the scrape of the site fails, getAvailability does not fail:
\* it returns, and when records of the item are stored it returns exactly
\* those, tagged as cached, however old they are.
C17_FallbackToPersisted ==
  \A c \in 1..Len(availCalls) :
    (AvailDone(c) /\ availCalls[c].siteFailed) =>
      /\ availCalls[c].result # <<>>
      /\ c = Len(availCalls) =>
           IF Len(PersistedFor(c)) > 0
           THEN /\ AvailResult(c) # <<>>
                /\ AvailResult(c)[1].stores = PersistedFor(c)
                /\ AvailResult(c)[1].fromCache
           ELSE AvailResult(c) = <<>>

\* C17 witness: a failed scrape was answered with records stored by an
\* earlier call, older than the clock
C17_Witness ==
  \E c \in 1..Len(availCalls) :
    /\ c = Len(availCalls)
    /\ AvailDone(c) /\ availCalls[c].siteFailed
    /\ AvailResult(c) # <<>>
    /\ Len(AvailResult(c)[1].stores) = 2
    /\ AvailResult(c)[1].stores = PersistedFor(c)
    /\ AvailResult(c)[1].checkedAt < now

\* C18: a call with forceRefresh = true scrapes the site, whatever the
\* caches hold.
C18_ForceRefreshScrapes ==
  \A c \in 1..Len(availCalls) :
    (AvailDone(c) /\ availCalls[c].forceRefresh) => availCalls[c].navigated

\* C19: the result is tagged fromCache = false exactly when its data was
\* obtained by scraping in this call, and fromCache = true when it was
\* served from a cache tier.
C19_FromCacheTag ==
  \A c \in 1..Len(availCalls) :
    (AvailDone(c) /\ AvailResult(c) # <<>>) =>
      AvailResult(c)[1].fromCache = ~availCalls[c].extracted

\* --------------------------------------------------- store-hours claims
\* the entry of store st in the result of call h, none when a filter or the
\* limit dropped it
EntriesOf(h, st) ==
  { e \in { hoursCalls[h].result[1].stores[i] :
              i \in 1..Len(hoursCalls[h].result[1].stores) } : e.id = st.id }

\* C20: in every answer of getStoreHours a store whose update timestamp lies
\* on a calendar day before the day of the answer has isOpenNow = false and
\* both hour fields unknown (null); a store updated on the day of the answer,
\* as after a re-scrape, has its stored hours and the open state they give.
C20_StaleHoursUnknown ==
  \A h \in 1..Len(hoursCalls) :
    hoursCalls[h].pc = "done" =>
      \A i \in 1..Len(hoursCalls[h].stores) :
        LET st == hoursCalls[h].stores[i]
            day == DateOf(hoursCalls[h].at)
        IN \A e \in EntriesOf(h, st) :
             /\ DateOf(st.updatedAt) < day =>
                  /\ ~e.isOpenNow
                  /\ e.openingHoursToday = <<>>
                  /\ e.openingHoursTomorrow = <<>>
             /\ DateOf(st.updatedAt) = day =>
                  /\ e.openingHoursToday = st.openingHoursToday
                  /\ e.openingHoursTomorrow = st.openingHoursTomorrow
                  /\ e.isOpenNow = isStoreOpenNow(st.openingHoursToday,
                                                  HourOf(hoursCalls[h].at))

\* C20 witness: a store captured yesterday with hours 9-18 is answered at ten
\* o'clock with unknown hours and closed, after a refresh that did not
\* reach it; an earlier answer of the day of capture showed it open
C20_Witness ==
  /\ Len(hoursCalls) = 2
  /\ hoursCalls[1].pc = "done" /\ hoursCalls[2].pc = "done"
  /\ \E e \in { hoursCalls[1].result[1].stores[i] :
                   i \in 1..Len(hoursCalls[1].result[1].stores) } :
        e.id = "s1" /\ e.isOpenNow /\ e.openingHoursToday = <<Hours9to18>>
  /\ hoursCalls[2].refreshed
  /\ HourOf(hoursCalls[2].at) = 10
  /\ \E i \in 1..Len(hoursCalls[2].stores) :
        LET st == hoursCalls[2].stores[i] IN
        /\ st.id = "s1"
        /\ st.openingHoursToday = <<Hours9to18>>
        /\ DateOf(st.updatedAt) = DateOf(hoursCalls[2].at) - 1
        /\ \E e \in EntriesOf(2, st) :
              ~e.isOpenNow /\ e.openingHoursToday = <<>> /\ e.openingHoursTomorrow = <<>>

\* C21: whenever the store data was stale and the refresh of a getStoreHours
\* call failed (its store sync was sealed failed), the answer carries
\* refreshed = false and a refreshError.
C21_FailedRefreshReported ==
  \A h \in 1..Len(hoursCalls) :
    (/\ hoursCalls[h].pc = "done"
     /\ hoursCalls[h].log > 0
     /\ syncLogs[hoursCalls[h].log].status = "failed")
    => /\ ~hoursCalls[h].result[1].refreshed
       /\ hoursCalls[h].result[1].refreshError # <<>>

C23_DelaySequence ==
  /\ \A k \in 1..Len(delays) :
       delays[k] = Min(backoff.baseMs * Pow(backoff.factor, k - 1), backoff.maxMs)
  /\ backoff.attempt = Len(delays)
  /\ (backoff.baseMs = 2 /\ backoff.factor = 2 /\ backoff.maxMs = 16)
     => delays = SubSeq(<<2, 4, 8, 16, 16, 16>>, 1, Len(delays))

\* C23 witness: five calls on the backoff of the example
C23_Witness ==
  /\ backoff.baseMs = 2 /\ backoff.factor = 2 /\ backoff.maxMs = 16
  /\ delays = <<2, 4, 8, 16, 16>>

\* C24: any two consecutive requests the scraper sends to the site
\* (page.goto calls) are at least the configured minimum interval apart.
C24_RequestsApart ==
  Len(gotoLog) = 2 => gotoLog[2] - gotoLog[1] >= rateLimiter.minIntervalMs

\* C25: at most one scraper operation at a time is between the return of its
\* throttle and its own completion.
C25_OneOperationDrives ==
  Cardinality({ s \in Slots : Driving(s) }) <= 1

\* ------------------------------------------------------- session claims
\* an operation ends its backoff wait in this step
EndsBackoff(s) == s \in Slots /\ ops[s].pc = "backoff" /\ ops'[s].pc = "done"

\* C26 (as stated): a failed operation leaves the session not established
\* exactly when the number of consecutive failed operations since the last
\* successful operation exceeds 3.
C26_DropAfterThreeFailures ==
  [][\A s \in 1..MaxInFlight :
       EndsBackoff(s) =>
         (sessionEstablished' = FALSE <=> failures.sinceSuccess > FailureThreshold)]_vars

\* C26 (amended): a failed operation leaves the session not established
\* exactly when more than 3 operations have failed since the backoff was last
\* reset, by a successful operation or by a session establishment; the
\* session is dropped in no other step, and the next operation then
\* establishes the session before it navigates.
C26_DropAfterThreeSinceReset ==
  [][/\ \A s \in 1..MaxInFlight :
          EndsBackoff(s) =>
            (sessionEstablished' = FALSE <=> failures.sinceReset > FailureThreshold)
     /\ (sessionEstablished /\ ~sessionEstablished') =>
          \E s \in 1..MaxInFlight : EndsBackoff(s)
     /\ \A s \in 1..MaxInFlight :
          (s \in Slots /\ ops[s].pc \in { "idle", "done" } /\ ops'[s].pc = "throttle")
            => sessionEstablished]_vars

\* C26 witness: the fourth failure in a row has dropped the session
C26_Witness ==
  /\ ~sessionEstablished
  /\ backoff.attempt = FailureThreshold + 1
  /\ failures.sinceSuccess = FailureThreshold + 1
  /\ \E s \in Slots : ops[s].pc = "done" /\ ops[s].caught

\* C30: an operation whose navigation or page read failed has made one
\* backoff wait and has rethrown the error; none returns a normal result.
C30_ErrorsRethrown ==
  \A s \in Slots :
    (ops[s].pc = "done" /\ ops[s].caught)
      => ops[s].waits = 1 /\ ops[s].result = "threw"

\* ------------------------------------------------------- SyncRun lifecycle
Sealed(log) == log.status \in { "completed", "failed" } /\ log.completedAt # Null

\* C27: a SyncRun is added with status started and nothing else set; the only
\* change ever made to a run seals it, from started to completed or failed;
\* a sealed run is never written again; and the run of every sync call that
\* has returned is sealed.
C27_SyncRunLifecycle ==
  [][/\ Len(syncLogs') \in { Len(syncLogs), Len(syncLogs) + 1 }
     /\ Len(syncLogs') > Len(syncLogs) =>
          /\ syncLogs'[Len(syncLogs')].status = "started"
          /\ syncLogs'[Len(syncLogs')].completedAt = Null
          /\ syncLogs'[Len(syncLogs')].errors = <<>>
     /\ \A i \in 1..Len(syncLogs) :
          syncLogs'[i] # syncLogs[i] =>
            /\ syncLogs[i].status = "started"
            /\ Sealed(syncLogs'[i])
            /\ syncLogs'[i].startedAt = syncLogs[i].startedAt
            /\ syncLogs'[i].type = syncLogs[i].type
     /\ \A r \in 1..Len(runs') :
          runs'[r].pc = "done" => Sealed(syncLogs'[r])]_vars

\* C27 witness: one returned sync sealed as completed and one as failed
C27_Witness ==
  /\ \A r \in 1..Len(runs) : runs[r].pc = "done"
  /\ \E i, j \in 1..Len(syncLogs) :
       /\ syncLogs[i].status = "completed" /\ runs[i].result.success
       /\ syncLogs[j].status = "failed" /\ ~runs[j].result.success

\* ------------------------------------------------ enrichment across syncs
\* the enrichment fields of a stored product
EnrichmentOf(product) ==
  [ tasteProfile |-> product.tasteProfile, foodPairings |-> product.foodPairings,
    smokiness |-> product.smokiness, smokinessLabel |-> product.smokinessLabel ]

\* the product whose enrichment fields a getProduct call has persisted
PersistedEnrichment(id) ==
  \E g \in 1..Len(gets) : gets[g].productId = id /\ gets[g].wrote /\ gets[g].pc = "done"

\* C28: a step of syncProducts leaves the enrichment fields of every item
\* whose enrichment was persisted by getProduct as they were.
C28_SyncKeepsEnrichment ==
  [][runs' # runs =>
       \A id \in DOMAIN products :
         PersistedEnrichment(id) =>
           /\ id \in DOMAIN products'
           /\ EnrichmentOf(products'[id]) = EnrichmentOf(products[id])]_vars

\* ------------------------------------------------- the search_products tool
\* An object is the sequence of its properties, << name, value >> in the
\* order they were set; a value is <<>> (undefined) or << v >>.
UpperCase ==
  << "A", "B", "C", "D", "E", "F", "G", "H", "I", "J", "K", "L", "M",
     "N", "O", "P", "Q", "R", "S", "T", "U", "V", "W", "X", "Y", "Z" >>
LowerCase ==
  << "a", "b", "c", "d", "e", "f", "g", "h", "i", "j", "k", "l", "m",
     "n", "o", "p", "q", "r", "s", "t", "u", "v", "w", "x", "y", "z" >>

\* String.prototype.charCodeAt for a letter
CodeUnit(c) ==
  IF \E i \in 1..Len(UpperCase) : UpperCase[i] = c
  THEN 64 + (CHOOSE i \in 1..Len(UpperCase) : UpperCase[i] = c)
  ELSE 96 + (CHOOSE i \in 1..Len(LowerCase) : LowerCase[i] = c)

\* the order of Array.prototype.sort() without a comparator: by code units,
\* a prefix before its extensions
RECURSIVE KeyBefore(_, _)
KeyBefore(a, b) ==
  IF a = <<>> THEN b # <<>>
  ELSE IF b = <<>> THEN FALSE
  ELSE IF CodeUnit(Head(a)) # CodeUnit(Head(b)) THEN CodeUnit(Head(a)) < CodeUnit(Head(b))
  ELSE KeyBefore(Tail(a), Tail(b))

RECURSIVE KeyInsert(_, _)
KeyInsert(sorted, k) ==
  IF sorted = <<>> THEN <<k>>
  ELSE IF KeyBefore(k, Head(sorted)) THEN <<k>> \o sorted
  ELSE <<Head(sorted)>> \o KeyInsert(Tail(sorted), k)

\* keys.sort()
RECURSIVE SortKeys(_)
SortKeys(keys) ==
  IF keys = <<>> THEN <<>> ELSE KeyInsert(SortKeys(Tail(keys)), Head(keys))

\* Object.keys(): the property names in the order they were set
ObjectKeys(obj) == [i \in 1..Len(obj) |-> obj[i][1]]

\* JSON.stringify(obj, replacer) with an array replacer: the properties the
\* replacer names, in the replacer's order; undefined values are left out.
\* The text is kept as the sequence of its "name":value members.
RECURSIVE stringify(_, _)
stringify(obj, replacer) ==
  IF replacer = <<>> THEN <<>>
  ELSE LET named == { i \in 1..Len(obj) : obj[i][1] = Head(replacer) /\ obj[i][2] # <<>> }
       IN (IF named = {} THEN <<>>
           ELSE << << Head(replacer), obj[CHOOSE i \in named : TRUE][2][1] >> >>)
          \o stringify(obj, Tail(replacer))

\* variant: the keys are taken in the order they were set
createSearchKey_Unsorted(filters) == stringify(filters, ObjectKeys(filters))

\* data-sync.ts:406-408: JSON.stringify(filters, Object.keys(filters).sort())
createSearchKey(filters) == stringify(filters, SortKeys(ObjectKeys(filters)))

KeyQuery == << "q", "u", "e", "r", "y" >>
KeyType == << "t", "y", "p", "e" >>
KeyMinPrice == << "m", "i", "n", "P", "r", "i", "c", "e" >>
KeyMinSmokiness == << "m", "i", "n", "S", "m", "o", "k", "i", "n", "e", "s", "s" >>
KeyMaxSmokiness == << "m", "a", "x", "S", "m", "o", "k", "i", "n", "e", "s", "s" >>
KeySortBy == << "s", "o", "r", "t", "B", "y" >>
KeySortOrder == << "s", "o", "r", "t", "O", "r", "d", "e", "r" >>
KeyLimit == << "l", "i", "m", "i", "t" >>
KeyOffset == << "o", "f", "f", "s", "e", "t" >>

\* part_006:55-89: `{ ...filters, ...options }`, the fields the tool sets in
\* the order it sets them
CacheKeyObject(input) ==
  << << KeyQuery, input.query >>, << KeyType, input.type >>,
     << KeyMinPrice, input.minPrice >>,
     << KeyMinSmokiness, input.minSmokiness >>,
     << KeyMaxSmokiness, input.maxSmokiness >>,
     << KeySortBy, <<input.sortBy>> >>, << KeySortOrder, <<input.sortOrder>> >>,
     << KeyLimit, <<input.limit>> >>, << KeyOffset, <<input.offset>> >> >>

\* data-sync.ts:410-413: undefined (<<>>) without an entry
getSearchResults(cache, filters) ==
  IF createSearchKey(filters) \in DOMAIN cache
  THEN <<cache[createSearchKey(filters)]>> ELSE <<>>

\* data-sync.ts:415-418
setSearchResults(cache, filters, results) ==
  [k \in DOMAIN cache \cup { createSearchKey(filters) } |->
     IF k = createSearchKey(filters) THEN results ELSE cache[k]]

\* part_006:90-99: what the tool returns on a cache hit
CachedAnswer(input, cached) ==
  [ input |-> input, products |-> cached, total |-> Len(cached),
    limit |-> input.limit, offset |-> input.offset, hasMore |-> FALSE,
    fromCache |-> TRUE ]

\* part_006:102-112: what the tool returns after a query of the store
QueriedAnswer(input, result) ==
  [ input |-> input, products |-> result.products, total |-> result.total,
    limit |-> result.limit, offset |-> result.offset, hasMore |-> result.hasMore,
    fromCache |-> FALSE ]

\* the inputs of the tool calls: pages of the whole catalog and of a text
\* search
SearchInputs ==
  [ query : { <<>>, << <<"B">> >> },
    type : { <<>> },
    minPrice : { <<>> },
    minSmokiness : { <<>> },
    maxSmokiness : { <<>> },
    sortBy : { "name" },
    sortOrder : { "asc" },
    limit : 1..MaxLimit,
    offset : 0..1 ]

\* part_006:44-99: the tool finds the search in the cache
SearchCacheHit(input) ==
  /\ Len(searchOut) < MaxSearches
  /\ seedDataChecked
  /\ getSearchResults(searchCache, CacheKeyObject(input)) # <<>>
  /\ searchOut' = Append(searchOut, CachedAnswer(input, getSearchResults(searchCache, CacheKeyObject(input))[1]))
  /\ UNCHANGED << now, products, stores, syncVars, inputVars, serviceVars, ensureVars, searchReq,
                  searchRes, searchCache, toolVars >>

\* part_006:44-112: no entry; the store is queried and the page is cached
SearchCacheMiss(input) ==
  /\ Len(searchOut) < MaxSearches
  /\ seedDataChecked
  /\ getSearchResults(searchCache, CacheKeyObject(input)) = <<>>
  /\ LET result == searchProducts(products, input, input)
     IN /\ searchCache' = setSearchResults(searchCache, CacheKeyObject(input), result.products)
        /\ searchOut' = Append(searchOut, QueriedAnswer(input, result))
  /\ UNCHANGED << now, products, stores, syncVars, inputVars, serviceVars, ensureVars, searchReq,
                  searchRes, toolVars >>

\* tool calls one after another against a loaded catalog that nothing writes
CacheInit ==
  /\ now = 0
  /\ products \in { CatalogOf(docs) : docs \in SUBSET CatalogPool }
  /\ stores = <<>>
  /\ syncLogs = <<>>
  /\ sheet = <<HeaderRow, BlankRow>>
  /\ seed = [present |-> FALSE, products |-> <<>>, stores |-> <<>>]
  /\ seedDataChecked = TRUE
  /\ seedDataLoading = 0
  /\ loaders = <<>>
  /\ callerPc = [c \in Callers |-> "idle"]
  /\ callerAwait = [c \in Callers |-> 0]
  /\ runs = <<>>
  /\ storeChecks = 0
  /\ seedLoads = 0
  /\ searchReq = NoRequest
  /\ searchRes = NoSearchResult
  /\ ToolsIdle

CacheNext ==
  \/ \E input \in SearchInputs : SearchCacheHit(input)
  \/ \E input \in SearchInputs : SearchCacheMiss(input)

CacheSpec == CacheInit /\ [][CacheNext]_vars

\* C29: an answer of the search tool that comes from the cache has the
\* products, total and hasMore that the same search returns from the store,
\* which no step has written.
C29_CacheTransparent ==
  \A i \in 1..Len(searchOut) :
    searchOut[i].fromCache =>
      LET result == searchProducts(products, searchOut[i].input, searchOut[i].input)
      IN /\ searchOut[i].products = result.products
         /\ searchOut[i].total = result.total
         /\ searchOut[i].hasMore = result.hasMore

\* ------------------------------------------------ navigation claims
\* the operation in slot s calls page.goto() in this step
Navigates(s) ==
  /\ s \in Slots
  /\ ops'[s].pc \in { "sessionNav", "nav", "subNav" }
  /\ ops'[s].pc # ops[s].pc

\* C31: every navigation of a scraper operation, the entry page of the
\* session and every store page included, comes as the next thing after a
\* throttle call of that operation has completed.
C31_NavigationThrottled ==
  [][\A s \in 1..MaxInFlight : Navigates(s) => ops[s].pc = "jitter"]_vars

\* ------------------------------------------------ bootstrap claims
\* C32: when an ensureData() call has returned without error and the seed
\* bundle holds items, the item collection is not empty.
C32_ReturnedMeansLoaded ==
  \A c \in Callers :
    (callerPc[c] = "returned" /\ seed.present /\ Len(seed.products) > 0)
      => DOMAIN products # {}

\* ------------------------------------------------ price-list download
\* one download per response the site may give
DownloadInit ==
  /\ now = 0
  /\ DataIdle
  /\ CachesEmpty
  /\ response \in Responses
  /\ download = <<>>
  /\ rateLimiter = RateLimiter(ScrapeRateLimit)
  /\ backoff = ExponentialBackoff(NoOptions)
  /\ concurrency = 1
  /\ budget = 0
  /\ ScraperAtRest

DownloadNext == DownloadThrows \/ DownloadReturns

DownloadSpec == DownloadInit /\ [][DownloadNext]_vars

\* C33: a response whose content type is not that of a spreadsheet makes
\* downloadPriceList() fail; it never returns a buffer for it.
C33_NonSpreadsheetRefused ==
  (download # <<>> /\ ContentTypeOf(response) \notin SpreadsheetTypes)
    => ~download[1].ok

\* ------------------------------------------------ stored records
\* C34: no step removes an item or an outlet: the ids of both collections
\* only grow.
C34_NothingDeleted ==
  [][/\ DOMAIN products \subseteq DOMAIN products'
     /\ DOMAIN stores \subseteq DOMAIN stores']_vars

\* C34 witness: after the bootstrap wrote items and outlets, a sync rewrote
\* an item and added another
C34_Witness ==
  /\ DOMAIN stores # {}
  /\ \E r \in 1..Len(runs) :
       /\ runs[r].pc = "done"
       /\ runs[r].result.productsUpdated > 0
       /\ runs[r].result.productsAdded > 0

\* ------------------------------------------------------------ VivinoScraper
\* getWineRating() calls are taken one at a time; each ends as a result, never
\* as a throw. Entries of the memory cache outlive the calls modelled here (its
\* ttl is an hour, its size 500).
MaxRatingCalls == 2

\* the wines asked for; none names a winery
WineNames == { <<"A">>, <<"a">>, <<"B">> }

\* what a wine page shows: the average in tenths and the number of ratings
PageRatings ==
  { [averageRating |-> 43, ratingsCount |-> 25],
    [averageRating |-> 0, ratingsCount |-> 0] }

\* vivino-scraper.ts:148: `${wineName}|${winery || ''}`.toLowerCase()
RatingCacheKey(wineName, winery) ==
  ToLowerCase(wineName \o <<"|">> \o (IF winery = <<>> THEN <<>> ELSE winery[1]))

\* vivino-scraper.ts:183-188, 402-407
HumanVerificationMessage == "Vivino requires human verification. Please try again later."
\* vivino-scraper.ts:289-291
NotEnoughRatingsMessage == "Wine found on Vivino but does not have enough ratings yet"
NotExtractedMessage == "Wine page found but rating data could not be extracted"
\* vivino-scraper.ts:312
NotParsedMessage == "Could not parse rating value"
\* vivino-scraper.ts:356-361: the message of the error that was caught
NavigationErrorMessage == "page.goto: Timeout exceeded"

\* a VivinoRatingResult with found: false; error "" is null
NotFoundResult(error) ==
  [ found |-> FALSE, rating |-> <<>>, error |-> error, fromCache |-> FALSE ]

\* vivino-scraper.ts:320-334: a VivinoRatingResult with found: true
FoundResult(wineName, shown, t) ==
  [ found |-> TRUE,
    rating |-> << [ wineName |-> wineName, averageRating |-> shown.averageRating,
                    ratingsCount |-> shown.ratingsCount, fetchedAt |-> t ] >>,
    error |-> "", fromCache |-> FALSE ]

\* firestore.ts:473-495: the document set under the cache key
setVivinoRating(db, cacheKey, rating, t) ==
  [ k \in DOMAIN db \cup { cacheKey } |->
      IF k = cacheKey
      THEN [ cacheKey |-> cacheKey, wineName |-> rating.wineName,
             averageRating |-> rating.averageRating,
             ratingsCount |-> rating.ratingsCount, fetchedAt |-> t ]
      ELSE db[k] ]

\* LRUCache.set
MemorySet(mem, cacheKey, result) ==
  [ k \in DOMAIN mem \cup { cacheKey } |-> IF k = cacheKey THEN result ELSE mem[k] ]

\* vivino-scraper.ts:76-111: the cached result, <<>> (null) without one; a
\* failing read of the store counts as a miss
getCachedRating(mem, db, cacheKey, readFails) ==
  IF cacheKey \in DOMAIN mem
  THEN << [mem[cacheKey] EXCEPT !.fromCache = TRUE] >>
  ELSE IF ~readFails /\ cacheKey \in DOMAIN db
       THEN << [ found |-> TRUE,
                 rating |-> << [ wineName |-> db[cacheKey].wineName,
                                 averageRating |-> db[cacheKey].averageRating,
                                 ratingsCount |-> db[cacheKey].ratingsCount,
                                 fetchedAt |-> db[cacheKey].fetchedAt ] >>,
                 error |-> "", fromCache |-> TRUE ] >>
       ELSE <<>>

\* vivino-scraper.ts:123: `result.found && result.rating`
PersistsRating(result) == result.found /\ result.rating # <<>>

\* vivino-scraper.ts:118-139: the store after cacheRating(); a failing write
\* is logged and leaves the store as it was
cacheRating(db, cacheKey, result, t, writeFails) ==
  IF PersistsRating(result) /\ ~writeFails
  THEN setVivinoRating(db, cacheKey, result.rating[1], t)
  ELSE db

\* variant: a result without a rating is written to the store as well
StoreWithoutRating_Persisted(db, cacheKey, result, t) ==
  setVivinoRating(db, cacheKey,
                  [ wineName |-> <<>>, averageRating |-> Null, ratingsCount |-> Null ], t)

\* vivino-scraper.ts:228-231, 299-302: a result without a rating goes to the
\* memory cache only (`this.memoryCache.set`); the store stays as it was
StoreWithoutRating(db, cacheKey, result, t) == db

\* rate-limiter.ts:20-37: the clock when throttleWithJitter() returns
AfterThrottle(limiter, t, jitter) == t + ThrottleWait(limiter, t) + jitter

\* no call is in flight
RatingsSettled == \A c \in 1..Len(ratingCalls) : ratingCalls[c].pc = "done"

\* vivino-scraper.ts:150-154: the call is answered from a cache
RatingCached(wineName, readFails) ==
  /\ Len(ratingCalls) < MaxRatingCalls
  /\ RatingsSettled
  /\ LET cacheKey == RatingCacheKey(wineName, <<>>)
         cached == getCachedRating(memoryCache, vivinoRatings, cacheKey, readFails)
     IN /\ cached # <<>>
        /\ memoryCache' = MemorySet(memoryCache, cacheKey,
                                    IF cacheKey \in DOMAIN memoryCache
                                    THEN memoryCache[cacheKey] ELSE cached[1])
        /\ ratingCalls' = Append(ratingCalls,
             [ wineName |-> wineName, cacheKey |-> cacheKey, pc |-> "done",
               inited |-> FALSE, navigations |-> 0, result |-> cached[1] ])
  /\ UNCHANGED << now, products, stores, syncVars, inputVars, ensureVars, searchVars,
                  toolVars, browserVars, vivinoRatings, vivinoScraper, toolCalls, keyLog >>

\* vivino-scraper.ts:156-232, 353-362: no cached result; the browser is
\* started if there is none, the call is throttled and the search page is
\* opened. The page is a verification challenge, lists no wine, lists one, or
\* the navigation throws
SearchPage(wineName, readFails, jitter, outcome) ==
  /\ Len(ratingCalls) < MaxRatingCalls
  /\ RatingsSettled
  /\ LET cacheKey == RatingCacheKey(wineName, <<>>)
         arrived == AfterThrottle(vivinoScraper.rateLimiter, now, jitter)
         throttled == [vivinoScraper EXCEPT
                         !.browser = TRUE,
                         !.rateLimiter = ThrottleDone(@, arrived - jitter)]
         call == [ wineName |-> wineName, cacheKey |-> cacheKey, pc |-> "done",
                   inited |-> ~vivinoScraper.browser, navigations |-> 1,
                   result |-> NotFoundResult("") ]
     IN /\ getCachedRating(memoryCache, vivinoRatings, cacheKey, readFails) = <<>>
        /\ CASE outcome = "challenge" ->
                  /\ ratingCalls' = Append(ratingCalls,
                       [call EXCEPT !.result = NotFoundResult(HumanVerificationMessage)])
                  /\ now' = arrived
                  /\ vivinoScraper' = throttled
                  /\ memoryCache' = memoryCache
                  /\ vivinoRatings' = vivinoRatings
             [] outcome = "noMatch" ->
                  /\ ratingCalls' = Append(ratingCalls, call)
                  /\ now' = arrived
                  /\ vivinoScraper' = throttled
                  /\ memoryCache' = MemorySet(memoryCache, cacheKey, NotFoundResult(""))
                  /\ vivinoRatings' = StoreWithoutRating(vivinoRatings, cacheKey,
                                                          NotFoundResult(""), arrived)
             [] outcome = "match" ->
                  /\ ratingCalls' = Append(ratingCalls, [call EXCEPT !.pc = "wine"])
                  /\ now' = arrived
                  /\ vivinoScraper' = throttled
                  /\ memoryCache' = memoryCache
                  /\ vivinoRatings' = vivinoRatings
             [] outcome = "throws" ->
                  /\ ratingCalls' = Append(ratingCalls,
                       [call EXCEPT !.result = NotFoundResult(NavigationErrorMessage)])
                  /\ now' = arrived + getNextDelay(throttled.backoff)
                  /\ vivinoScraper' = [throttled EXCEPT !.backoff = AfterNextDelay(@)]
                  /\ memoryCache' = memoryCache
                  /\ vivinoRatings' = vivinoRatings
  /\ UNCHANGED << products, stores, syncVars, inputVars, ensureVars, searchVars,
                  toolVars, browserVars, toolCalls, keyLog >>

\* vivino-scraper.ts:234-362: the call is throttled again and the wine page
\* is opened. The page shows no average, one that is no number, or a rating;
\* or the navigation throws
WinePage(c, jitter, outcome, shown, writeFails) ==
  /\ c \in 1..Len(ratingCalls)
  /\ ratingCalls[c].pc = "wine"
  /\ LET cacheKey == ratingCalls[c].cacheKey
         arrived == AfterThrottle(vivinoScraper.rateLimiter, now, jitter)
         throttled == [vivinoScraper EXCEPT !.rateLimiter = ThrottleDone(@, arrived - jitter)]
         found == FoundResult(ratingCalls[c].wineName, shown, arrived)
         Ends(result) ==
           [ratingCalls EXCEPT ![c].pc = "done", ![c].navigations = @ + 1,
                               ![c].result = result]
     IN CASE outcome = "notEnough" ->
                  /\ ratingCalls' = Ends(NotFoundResult(NotEnoughRatingsMessage))
                  /\ now' = arrived
                  /\ vivinoScraper' = throttled
                  /\ memoryCache' = MemorySet(memoryCache, cacheKey,
                                              NotFoundResult(NotEnoughRatingsMessage))
                  /\ vivinoRatings' = StoreWithoutRating(vivinoRatings, cacheKey,
                                        NotFoundResult(NotEnoughRatingsMessage), arrived)
             [] outcome = "notExtracted" ->
                  /\ ratingCalls' = Ends(NotFoundResult(NotExtractedMessage))
                  /\ now' = arrived
                  /\ vivinoScraper' = throttled
                  /\ memoryCache' = MemorySet(memoryCache, cacheKey,
                                              NotFoundResult(NotExtractedMessage))
                  /\ vivinoRatings' = StoreWithoutRating(vivinoRatings, cacheKey,
                                        NotFoundResult(NotExtractedMessage), arrived)
             [] outcome = "notParsed" ->
                  /\ ratingCalls' = Ends(NotFoundResult(NotParsedMessage))
                  /\ now' = arrived
                  /\ vivinoScraper' = throttled
                  /\ memoryCache' = memoryCache
                  /\ vivinoRatings' = vivinoRatings
             [] outcome = "found" ->
                  /\ ratingCalls' = Ends(found)
                  /\ now' = arrived
                  /\ vivinoScraper' = [throttled EXCEPT !.backoff = reset(@)]
                  /\ memoryCache' = MemorySet(memoryCache, cacheKey, found)
                  /\ vivinoRatings' = cacheRating(vivinoRatings, cacheKey, found,
                                                  arrived, writeFails)
             [] outcome = "throws" ->
                  /\ ratingCalls' = Ends(NotFoundResult(NavigationErrorMessage))
                  /\ now' = arrived + getNextDelay(throttled.backoff)
                  /\ vivinoScraper' = [throttled EXCEPT !.backoff = AfterNextDelay(@)]
                  /\ memoryCache' = memoryCache
                  /\ vivinoRatings' = vivinoRatings
  /\ UNCHANGED << products, stores, syncVars, inputVars, ensureVars, searchVars,
                  toolVars, browserVars, toolCalls, keyLog >>

SearchOutcomes == { "challenge", "noMatch", "match", "throws" }
WineOutcomes == { "notEnough", "notExtracted", "notParsed", "found", "throws" }

RatingInit ==
  /\ now = 0
  /\ DataIdle
  /\ CallsIdle
  /\ rateLimiter = RateLimiter(ScrapeRateLimit)
  /\ backoff = ExponentialBackoff(NoOptions)
  /\ concurrency = 1
  /\ budget = 0
  /\ ScraperAtRest

RatingNext ==
  \/ \E wineName \in WineNames, readFails \in BOOLEAN : RatingCached(wineName, readFails)
  \/ \E wineName \in WineNames, readFails \in BOOLEAN, jitter \in 0..(MaxJitter - 1),
        outcome \in SearchOutcomes : SearchPage(wineName, readFails, jitter, outcome)
  \/ \E c \in 1..MaxRatingCalls, jitter \in 0..(MaxJitter - 1), outcome \in WineOutcomes,
        shown \in PageRatings, writeFails \in BOOLEAN :
          WinePage(c, jitter, outcome, shown, writeFails)

RatingSpec == RatingInit /\ [][RatingNext]_vars

\* the call c ends in this step with a rating it found on the wine page
FindsRating(c) ==
  /\ ratingCalls[c].pc = "wine"
  /\ ratingCalls'[c].pc = "done"
  /\ ratingCalls'[c].result.found
  /\ ~ratingCalls'[c].result.fromCache

\* C35: the durable rating collection holds found ratings only: whenever a
\* document of it is created or rewritten, a call ends in that step with a
\* rating it found, under that document's key and with that rating's values;
\* a call that ends not found, without enough ratings, at a verification
\* challenge or with an error leaves the collection as it was.
C35_OnlyFoundPersisted ==
  [][\A k \in DOMAIN vivinoRatings' :
       (k \notin DOMAIN vivinoRatings \/ vivinoRatings'[k] # vivinoRatings[k]) =>
         \E c \in 1..Len(ratingCalls) :
           /\ FindsRating(c)
           /\ ratingCalls[c].cacheKey = k
           /\ vivinoRatings'[k].averageRating = ratingCalls'[c].result.rating[1].averageRating
           /\ vivinoRatings'[k].ratingsCount = ratingCalls'[c].result.rating[1].ratingsCount]_vars

\* C35 witness: a rating is stored for one wine, and a call for another wine
\* ended without enough ratings and left no document
C35_Witness ==
  /\ DOMAIN vivinoRatings # {}
  /\ \E c \in 1..Len(ratingCalls) :
       /\ ratingCalls[c].pc = "done"
       /\ ratingCalls[c].result.error = NotEnoughRatingsMessage
       /\ ~ratingCalls[c].result.fromCache
       /\ ratingCalls[c].cacheKey \notin DOMAIN vivinoRatings

\* ------------------------------------------------------------ tool handlers
\* handler invocations that reach the store
MaxToolCalls == 2

\* part_005:63-200: the tools that read or write the store
StoreTools ==
  { "search_products", "get_product", "get_availability", "list_stores",
    "get_store_hours", "sync_products", "get_vivino_rating" }

\* part_006:47, get-product.ts:30, get-availability.ts:27, list-stores.ts:22,
\* part_005:378: the handlers whose first statement is `await ensureData()`.
\* The sync_products handler (part_005:177-179, data-sync.ts:80-87) and
\* getVivinoRating (part_007:344-357) do not call it.
EnsuringTools ==
  { "search_products", "get_product", "get_availability", "list_stores",
    "get_store_hours" }

\* the first call a handler makes on the store
FirstAccess(tool) ==
  CASE tool = "search_products" -> "searchProducts"
    [] tool = "get_product" -> "getProduct"
    [] tool = "get_availability" -> "getProduct"
    [] tool = "list_stores" -> "listStores"
    [] tool = "get_store_hours" -> "listStores"
    [] tool = "sync_products" -> "createSyncLog"
    [] tool = "get_vivino_rating" -> "getVivinoRating"

\* the ensureData() callers whose handler has gone on to the store
Proceeded == { toolCalls[i].caller : i \in 1..Len(toolCalls) }

\* the handler whose ensureData() call was c: the await returned and the
\* handler makes its first call on the store. (When the await throws, the
\* handler throws without one.)
HandlerProceeds(tool, c) ==
  /\ Len(toolCalls) < MaxToolCalls
  /\ tool \in EnsuringTools
  /\ c \in Callers \ Proceeded
  /\ callerPc[c] = "returned"
  /\ toolCalls' = Append(toolCalls,
       [ tool |-> tool, caller |-> c, access |-> FirstAccess(tool),
         ensured |-> seedDataChecked ])
  /\ UNCHANGED << now, products, stores, syncVars, inputVars, ensureVars, searchVars,
                  toolVars, browserVars, vivinoVars, keyLog >>

\* a handler without an ensureData() call makes its first call on the store
HandlerDirect(tool) ==
  /\ Len(toolCalls) < MaxToolCalls
  /\ tool \in StoreTools \ EnsuringTools
  /\ toolCalls' = Append(toolCalls,
       [ tool |-> tool, caller |-> 0, access |-> FirstAccess(tool),
         ensured |-> seedDataChecked ])
  /\ UNCHANGED << now, products, stores, syncVars, inputVars, ensureVars, searchVars,
                  toolVars, browserVars, vivinoVars, keyLog >>

ToolNext ==
  \/ \E c \in Callers : CallFast(c)
  \/ \E c \in Callers : CallJoin(c)
  \/ \E c \in Callers : CallStart(c)
  \/ \E a \in 1..NCallers : LoaderCountSkip(a)
  \/ \E a \in 1..NCallers : LoaderCountLoad(a)
  \/ \E a \in 1..NCallers : LoaderGet(a)
  \/ \E a \in 1..NCallers : LoaderCommit(a)
  \/ \E a \in 1..NCallers : LoaderStore(a)
  \/ \E a \in 1..NCallers : LoaderThrow(a)
  \/ \E tool \in StoreTools, c \in Callers : HandlerProceeds(tool, c)
  \/ \E tool \in StoreTools : HandlerDirect(tool)

ToolSpec == Init /\ [][ToolNext]_vars

\* C36: every tool handler that reaches the store (search, get item,
\* availability, list outlets, outlet hours with its outlet sync, item sync,
\* external rating) does so after an ensureData() call of its own has
\* returned.
C36_EnsuredBeforeStore ==
  \A i \in 1..Len(toolCalls) :
    /\ toolCalls[i].caller \in Callers
    /\ callerPc[toolCalls[i].caller] = "returned"

\* ------------------------------------------- syncProducts, repeated ids
\* price lists that list an id twice: next to each other, in two batches,
\* and once more with another name; and one that lists each id once
RepeatSheets ==
  { <<HeaderRow, Row1, Row1>>,
    <<HeaderRow, Row1, Row2, Row1>>,
    <<HeaderRow, Row1, DataRow(Txt1, NameB, 6, 40), Row3>>,
    <<HeaderRow, Row1, Row2, Row3>> }

\* the bootstrap is over (the store was found empty and no seed is bundled)
RepeatInit ==
  /\ now = 0
  /\ products = <<>>
  /\ stores = <<>>
  /\ syncLogs = <<>>
  /\ sheet \in RepeatSheets \cup Sheets
  /\ seed = [present |-> FALSE, products |-> <<>>, stores |-> <<>>]
  /\ seedDataChecked = TRUE
  /\ seedDataLoading = 0
  /\ loaders = <<>>
  /\ callerPc = [c \in Callers |-> "idle"]
  /\ callerAwait = [c \in Callers |-> 0]
  /\ runs = <<>>
  /\ storeChecks = 0
  /\ seedLoads = 0
  /\ searchReq = NoRequest
  /\ searchRes = NoSearchResult
  /\ ToolsIdle

RepeatNext ==
  \/ SyncStart
  \/ \E r \in 1..MaxRuns : SyncDownloadFail(r)
  \/ \E r \in 1..MaxRuns : SyncParseFail(r)
  \/ \E r \in 1..MaxRuns : SyncDownload(r)
  \/ \E r \in 1..MaxRuns : SyncGet(r)
  \/ \E r \in 1..MaxRuns : SyncCommit(r)
  \/ \E r \in 1..MaxRuns : SyncUpsertThrow(r)

RepeatSpec == RepeatInit /\ [][RepeatNext]_vars

\* the ids the run at clock reading t created, and the ids it rewrote that
\* were there before it
CreatedAt(t) == { id \in DOMAIN products : products[id].createdAt = t }
RewrittenAt(t) ==
  { id \in DOMAIN products : products[id].updatedAt = t /\ products[id].createdAt < t }

\* C37: when an item sync has completed, its added count is the number of
\* ids it created and its updated count the number of ids it rewrote that
\* existed before it, each id counted once, also for a price list that lists
\* an id more than once. (Every run reads the clock at its own tick, so the
\* documents of the latest run are those stamped with the present reading.)
C37_CountsDistinctIds ==
  (Len(runs) > 0 /\ runs[Len(runs)].pc = "done" /\ runs[Len(runs)].result.success) =>
    /\ runs[Len(runs)].result.productsAdded = Cardinality(CreatedAt(now))
    /\ runs[Len(runs)].result.productsUpdated = Cardinality(RewrittenAt(now))

\* ------------------------------------------------ AlkoScraper, the browser
\* the calls of init() that can reject
InitSteps == { "launch", "newContext", "newPage", "addInitScript" }

\* scraper.ts:57-96, 166-170: init() starts the browser and one of its calls
\* rejects; the fields assigned before it stay set and the error leaves the
\* operation
InitFailed(s, step) ==
  /\ s \in Slots
  /\ ops[s].pc = "init"
  /\ ~browser
  /\ browser' = (step # "launch")
  /\ context' = (step \in { "newPage", "addInitScript" })
  /\ page' = (step = "addInitScript")
  /\ ops' = Finish(s, "threw")
  /\ UNCHANGED << now, products, stores, syncVars, inputVars, vivinoVars, toolCalls, keyLog,
                  ensureVars, searchVars, enrichVars, availVars, hoursCalls, limiterVars,
                  backoffVars, sessionEstablished, concurrency, budget, opsStarted,
                  gotoLog, failures >>

\* scraper.ts:962-971: close(), called between operations
Close ==
  /\ browser
  /\ \A s \in Slots : ops[s].pc \in { "idle", "done" }
  /\ browser' = FALSE
  /\ context' = FALSE
  /\ page' = FALSE
  /\ sessionEstablished' = FALSE
  /\ UNCHANGED << now, products, stores, syncVars, inputVars, vivinoVars, toolCalls, keyLog,
                  ensureVars, searchVars, enrichVars, availVars, hoursCalls, limiterVars,
                  backoffVars, concurrency, budget, ops, opsStarted, gotoLog, failures >>

PageNext ==
  \/ ScrapeNext
  \/ \E s \in 1..MaxInFlight, step \in InitSteps : InitFailed(s, step)
  \/ Close

PageSpec == SessionInit /\ [][PageNext]_vars

\* C38: whatever operations, failures (a browser start-up that fails part
\* way included) and close() calls came before, a navigation is made with a
\* page at hand.
C38_PageAtNavigation ==
  [][\A s \in 1..MaxInFlight : Navigates(s) => page']_vars

\* ------------------------------------------------------- createSearchKey
\* keys made in one run
MaxKeys == 2

\* the properties an object is built from: a text query or none, a page
\* size, a lowest price
KeyProperties ==
  { << KeyQuery, <<>> >>, << KeyQuery, << <<"B">> >> >>,
    << KeyLimit, <<1>> >>, << KeyLimit, <<2>> >>,
    << KeyMinPrice, <<5>> >> }

\* the objects of up to three properties with different names, in every
\* order of construction
KeyObjects ==
  { <<>> } \cup { <<p>> : p \in KeyProperties }
  \cup { o \in { <<p, q>> : p \in KeyProperties, q \in KeyProperties } : o[1][1] # o[2][1] }
  \cup { o \in { <<p, q, r>> : p \in KeyProperties, q \in KeyProperties, r \in KeyProperties } :
           o[1][1] # o[2][1] /\ o[1][1] # o[3][1] /\ o[2][1] # o[3][1] }

\* data-sync.ts:410-418: a cache operation makes the key of the object it
\* is given
CreateSearchKey(filters) ==
  /\ Len(keyLog) < MaxKeys
  /\ keyLog' = Append(keyLog, [ filters |-> filters, key |-> createSearchKey(filters) ])
  /\ UNCHANGED << now, products, stores, syncVars, inputVars, ensureVars, searchVars,
                  toolVars, browserVars, vivinoVars, toolCalls >>

KeyNext == \E filters \in KeyObjects : CreateSearchKey(filters)

KeySpec == RatingInit /\ [][KeyNext]_vars

\* the properties of an object, whatever their order
Properties(obj) == { obj[i] : i \in 1..Len(obj) }

\* C39: two objects with the same fields and values get the same search
\* cache key, whatever the order their fields were set in.
C39_KeyCanonical ==
  \A i, j \in 1..Len(keyLog) :
    Properties(keyLog[i].filters) = Properties(keyLog[j].filters)
      => keyLog[i].key = keyLog[j].key

\* C39 witness: keys were made for one set of three fields in two different
\* orders of construction
C39_Witness ==
  \E i, j \in 1..Len(keyLog) :
    /\ Len(keyLog[i].filters) = 3
    /\ keyLog[i].filters # keyLog[j].filters
    /\ Properties(keyLog[i].filters) = Properties(keyLog[j].filters)
    /\ keyLog[i].key = keyLog[j].key

\* the call c ended at a verification challenge
Challenged(c) ==
  /\ ratingCalls[c].pc = "done"
  /\ ~ratingCalls[c].result.fromCache
  /\ ratingCalls[c].result.error = HumanVerificationMessage

\* C40: a call that detects a verification challenge ends with the
\* challenge error after the one navigation it made, and the next call that
\* navigates starts the browser session anew before it does.
C40_ChallengeDropsSession ==
  \A c \in 1..Len(ratingCalls) :
    Challenged(c) =>
      /\ ~ratingCalls[c].result.found
      /\ ratingCalls[c].navigations = 1
      /\ \A d \in (c + 1)..Len(ratingCalls) :
           (ratingCalls[d].navigations > 0 /\ \A e \in (c + 1)..(d - 1) : ratingCalls[e].navigations = 0)
             => ratingCalls[d].inited

====
